---------------------------- MODULE Spec2Model ----------------------------
(***************************************************************************)
(* A model of the SMX container codec (src/src/smx.rs), of its string      *)
(* table (src/src/smx_table.rs) and of the Smx facade (src/src/lib.rs).    *)
(*                                                                         *)
(* Bytes are the integers 0..255 and a byte vector is a sequence of them.  *)
(* Offsets are 0-based as in the source; a sequence s holds the byte at    *)
(* offset i in s[i + 1].                                                   *)
(***************************************************************************)
EXTENDS Integers, Sequences, FiniteSets, TLC

VARIABLES
    \* the string table under test (SpecTable)
    table,      \* CStrTable.blob
    built,      \* TRUE while the table came from new() and insert calls only
    history,    \* the insert calls so far: [name, offset, before, after]
    lookup,     \* the last get_c_string call: [blob, offset, result]
    \* one write and read of a container (Spec)
    pc,         \* position of the caller
    slice,      \* the caller's pairs <<name, data>>
    newResult,  \* what BorrowedMap::new returned
    kind,       \* the SectionMap implementation: "HashMap" or "BorrowedMap"
    smx,        \* Smx.sections, the HashMap name -> data (kind = "HashMap")
    sections,   \* what SectionMap::iter yields to write_to, in order
    order,      \* the ByteOrder type parameter E of write_to
    level,      \* the CompressionLevel of write_to
    file,       \* the bytes write_to produced
    readResult, \* what Smx::read_from or read_from returned for file
    \* one read of a file into a sink (SpecRead)
    failing,    \* the write_section calls (0, 1, ...) the sink answers with Err
    checks,     \* TRUE when the build traps on integer overflow
    sinkCalls,  \* the write_section calls read_from made, in order
    stopped,    \* where read_from returned from
    \* the writer handed to write_to
    writer,     \* [failAt, calls, result]: the call it fails (None: never),
                \* the write calls it received, what write_to returned
    \* one instruction written to a code vector and read back (SpecCode)
    host,       \* the byte order of the build target (byteorder::NativeEndian)
    insn,       \* the Instruction handed to Instruction::write_to
    code,       \* the Vec<u8> the instruction stream was written to
    decoded,    \* what Instruction::read_from returned for code, and where
                \* it left the cursor: [result, position]
    \* a MaybeUncompressedReader over file and its caller (SpecReader)
    reader      \* [rd, at, last]: the reader's positions, the position the
                \* caller is at by its seeks and reads (None: not known),
                \* the caller's last call and what it returned

tableVars == <<table, built, history, lookup>>
sinkVars == <<failing, checks, sinkCalls, stopped>>
codeVars == <<host, insn, code, decoded>>
fileVars == <<pc, slice, newResult, kind, smx, sections, order, level, file,
              readResult, failing, checks, sinkCalls, stopped, writer,
              host, insn, code, decoded, reader>>
vars == <<table, built, history, lookup,
          pc, slice, newResult, kind, smx, sections, order, level, file,
          readResult, failing, checks, sinkCalls, stopped, writer,
          host, insn, code, decoded, reader>>

-----------------------------------------------------------------------------
(* Bounds of the model. *)

MaxNameLen == 2
MaxInserts == 3
MaxBlobLen == 4

\* Bytes that names are made of (no null byte: a name is a CStr).
NameBytes == {97, 98}
\* Bytes that an arbitrary blob is made of.
BlobBytes == {0, 97, 98}

SeqsUpTo(S, n) == UNION {[1..k -> S] : k \in 0..n}

Names == SeqsUpTo(NameBytes, MaxNameLen)
Blobs == SeqsUpTo(BlobBytes, MaxBlobLen)

None == [some |-> FALSE]
Some(v) == [some |-> TRUE, val |-> v]

\* Evaluation.  TLC evaluates a LET definition and an operator argument
\* where they are used, and again at each use when it collects coverage; a
\* bound variable holds a value.  Where a value is costly and used more than
\* once, "CHOOSE r \in {F(x) : x \in {e}} : TRUE" stands for "F(e)" with e
\* evaluated once.  A loop over a long sequence is split by halves (first
\* half, then second half from the first half's result), which visits the
\* elements in the loop's order and keeps the evaluation shallow.

\* The concatenation f[lo] \o ... \o f[hi] of a sequence of sequences, split
\* by halves so that the evaluation stays shallow for long sequences.
RECURSIVE ConcatRange(_, _, _)
ConcatRange(f, lo, hi) ==
    IF lo > hi THEN <<>>
    ELSE IF lo = hi THEN f[lo]
    ELSE LET mid == (lo + hi) \div 2
         IN  ConcatRange(f, lo, mid) \o ConcatRange(f, mid + 1, hi)

\* The sum f[lo] + ... + f[hi], split the same way.
RECURSIVE SumRange(_, _, _)
SumRange(f, lo, hi) ==
    IF lo > hi THEN 0
    ELSE IF lo = hi THEN f[lo]
    ELSE LET mid == (lo + hi) \div 2
         IN  SumRange(f, lo, mid) + SumRange(f, mid + 1, hi)

-----------------------------------------------------------------------------
(* CStrTable, src/src/smx_table.rs *)

\* The loop of Iter::next: the first offset >= i that holds a null byte, or
\* the blob length when there is none.
RECURSIVE NulFrom(_, _)
NulFrom(blob, i) ==
    IF i >= Len(blob) THEN i
    ELSE IF blob[i + 1] = 0 THEN i
    ELSE NulFrom(blob, i + 1)

\* Iter::next at self.offset = offset: the item (begin, piece) and the new
\* self.offset, or None.
IterNext(blob, offset) ==
    IF offset < Len(blob)
    THEN LET nul == NulFrom(blob, offset)
         IN  Some([begin |-> offset,
                   piece |-> SubSeq(blob, offset + 1, nul),
                   offset |-> nul + 1])
    ELSE None

\* The offsets at which the iterator of self.iter() yields an item: it starts
\* at 0 and continues right after each null byte, while that is inside the
\* blob.
IterBegins(blob) ==
    {o \in 0..(Len(blob) - 1) : o = 0 \/ blob[o] = 0}

\* self.iter().find_map(..) of insert: the begin of the first item whose
\* piece equals data.
FindPiece(blob, data) ==
    LET hits == {o \in IterBegins(blob) : IterNext(blob, o).val.piece = data}
    IN  IF hits = {} THEN None
        ELSE Some(CHOOSE o \in hits : \A p \in hits : o <= p)

\* A plausible slip: insert that never looks for an existing copy.
InsertAlwaysAppends(blob, data) ==
    [offset |-> Len(blob), blob |-> blob \o data \o <<0>>]

\* CStrTable::insert: the returned offset and the blob afterwards.
Insert(blob, data) ==
    LET found == FindPiece(blob, data)
    IN  IF found.some
        THEN [offset |-> found.val, blob |-> blob]
        ELSE [offset |-> Len(blob), blob |-> blob \o data \o <<0>>]

\* A plausible slip: the scan stops one byte late and keeps the terminator.
GetCStringKeepsNul(blob, offset) ==
    IF offset < Len(blob)
    THEN LET nul == NulFrom(blob, offset)
         IN  Some(SubSeq(blob, offset + 1, IF nul < Len(blob) THEN nul + 1 ELSE nul))
    ELSE None

\* A plausible slip: the bound check admits offset = blob.len().
GetCStringOffByOne(blob, offset) ==
    IF offset <= Len(blob)
    THEN Some(SubSeq(blob, offset + 1, NulFrom(blob, offset)))
    ELSE None

\* CStrTable::get_c_string: the bytes of the CString without its terminator.
GetCString(blob, offset) ==
    IF offset < Len(blob)
    THEN Some(SubSeq(blob, offset + 1, NulFrom(blob, offset)))
    ELSE None

\* CStrTable::len
TableLen(blob) == Len(blob)

-----------------------------------------------------------------------------
(* The string table as a state machine: new(), from_blob(), insert(),      *)
(* get_c_string().                                                         *)

\* No read into a sink has been made.
IdleSink ==
    /\ failing = {}
    /\ checks = FALSE
    /\ sinkCalls = <<>>
    /\ stopped = None

\* write_to has not been called.
IdleWriter ==
    writer = [failAt |-> None, calls |-> <<>>, result |-> None]

\* No instruction has been written or read, and no reader is in use.
IdleCode ==
    /\ host = "Little"
    /\ insn = None
    /\ code = <<>>
    /\ decoded = None
    /\ reader = None

IdleFile ==
    /\ IdleSink
    /\ IdleWriter
    /\ IdleCode
    /\ pc = "idle"
    /\ slice = <<>>
    /\ newResult = None
    /\ kind = "HashMap"
    /\ smx = <<>>
    /\ sections = <<>>
    /\ order = "Little"
    /\ level = "NoCompression"
    /\ file = <<>>
    /\ readResult = None

\* CStrTable::new
InitTable ==
    /\ table = <<>>
    /\ built = TRUE
    /\ history = <<>>
    /\ lookup = None
    /\ IdleFile

\* CStrTable::from_blob on a table that was not used yet
FromBlob ==
    /\ built /\ history = <<>> /\ lookup = None
    /\ \E blob \in Blobs \ {<<>>} :
        /\ table' = blob
        /\ built' = FALSE
    /\ UNCHANGED <<history, lookup>>
    /\ UNCHANGED fileVars

\* CStrTable::insert on a table built by insert calls
InsertName ==
    /\ built
    /\ Len(history) < MaxInserts
    /\ \E name \in Names :
        LET r == Insert(table, name)
        IN  /\ table' = r.blob
            /\ history' = Append(history,
                    [name |-> name, offset |-> r.offset,
                     before |-> table, after |-> r.blob])
    /\ UNCHANGED <<built, lookup>>
    /\ UNCHANGED fileVars

\* CStrTable::get_c_string
Lookup ==
    /\ \E offset \in 0..(Len(table) + 1) :
        lookup' = Some([blob |-> table, offset |-> offset,
                        result |-> GetCString(table, offset)])
    /\ UNCHANGED <<table, built, history>>
    /\ UNCHANGED fileVars

NextTable == FromBlob \/ InsertName \/ Lookup

SpecTable == InitTable /\ [][NextTable]_vars

\* The blob the source's tests expect for a sequence of inserted names: every
\* distinct name once, in order of first insertion, each followed by one
\* null byte.
FirstCopies(names) ==
    ConcatRange([i \in 1..Len(names) |->
                    IF \E k \in 1..(i - 1) : names[k] = names[i]
                    THEN <<>> ELSE names[i] \o <<0>>],
                1, Len(names))

\* C4: in a table built only by insert calls, inserting a name that was
\* inserted before returns the offset of its first insertion and leaves the
\* blob unchanged, whatever was inserted in between.
C4_InsertIdempotent ==
    built =>
        \A i, j \in 1..Len(history) :
            (i < j /\ history[i].name = history[j].name) =>
                /\ history[j].offset = history[i].offset
                /\ history[j].after = history[j].before

\* A name inserted again after a different name was inserted in between.
C4_Witness ==
    /\ built
    /\ Len(history) = 3
    /\ history[1].name = history[3].name
    /\ history[2].name # history[1].name
    /\ history[2].after # history[2].before

\* C5: after any sequence of insert calls on a fresh table, get_c_string of
\* every offset insert ever returned yields the name inserted by that call,
\* in every later state of the table.
C5_InsertLookupRoundTrip ==
    built =>
        \A i \in 1..Len(history) :
            GetCString(table, history[i].offset) = Some(history[i].name)

\* The empty name, and a name that is a suffix of an earlier one, inserted and
\* still found after a later insert.
C5_Witness ==
    /\ built
    /\ Len(history) = 3
    /\ history[1].name = <<97, 98>>
    /\ history[2].name = <<98>>
    /\ history[3].name = <<>>
    /\ GetCString(table, history[2].offset) = Some(<<98>>)
    /\ GetCString(table, history[3].offset) = Some(<<>>)

\* C6: after any sequence of insert calls on a fresh table the blob is the
\* concatenation of the distinct inserted names in order of first insertion,
\* each followed by one null byte; an empty table holds (and writes) no byte.
C6_BlobIsFirstCopies ==
    built => table = FirstCopies([i \in 1..Len(history) |-> history[i].name])

\* Three inserts of which one repeats a name: two stored copies.
C6_Witness ==
    /\ built
    /\ Len(history) = 3
    /\ history[1].name = <<97>>
    /\ history[2].name = <<97, 98>>
    /\ history[3].name = <<97>>
    /\ table = <<97, 0, 97, 98, 0>>

\* C7: get_c_string on an arbitrary blob returns None exactly when
\* offset >= blob length, and otherwise the bytes from offset up to (not
\* including) the next null byte or the end of the blob.
C7_LookupScansToNul ==
    lookup.some =>
        LET b == lookup.val.blob
            o == lookup.val.offset
            r == lookup.val.result
        IN  /\ (~r.some) <=> (o >= Len(b))
            /\ r.some =>
                /\ \A k \in 1..Len(r.val) : r.val[k] = b[o + k] /\ r.val[k] # 0
                /\ o + Len(r.val) = Len(b) \/ b[o + Len(r.val) + 1] = 0

\* A lookup in the middle of a stored name whose tail has no terminator.
C7_Witness ==
    /\ lookup.some
    /\ ~built
    /\ lookup.val.blob = <<97, 0, 97, 98>>
    /\ lookup.val.offset = 3
    /\ lookup.val.result = Some(<<98>>)

-----------------------------------------------------------------------------
(* Integers on the wire (byteorder's ByteOrder, LittleEndian, BigEndian).  *)

Reverse(s) == [i \in 1..Len(s) |-> s[Len(s) + 1 - i]]

\* `v as u8`
AsU8(v) == v % 256

\* write_u16::<E>(v as u16): the cast keeps the low 16 bits.
U16Bytes(E, v) ==
    LET le == <<v % 256, (v \div 256) % 256>>
    IN  IF E = "Little" THEN le ELSE Reverse(le)

\* write_u32::<E>(v as u32): the cast keeps the low 32 bits.
U32Bytes(E, v) ==
    LET le == <<v % 256, (v \div 256) % 256,
                (v \div 65536) % 256, (v \div 16777216) % 256>>
    IN  IF E = "Little" THEN le ELSE Reverse(le)

\* read_u16::<E> / u16::from_le_bytes, from_be_bytes
U16From(E, b) ==
    LET le == IF E = "Little" THEN b ELSE Reverse(b)
    IN  le[1] + 256 * le[2]

\* read_u32::<E> / u32::from_le_bytes, from_be_bytes
U32From(E, b) ==
    LET le == IF E = "Little" THEN b ELSE Reverse(b)
    IN  le[1] + 256 * le[2] + 65536 * le[3] + 16777216 * le[4]

FILE_MAGIC == 1397769798
TARGET_VERSION == 258

\* size_of!(u32 + u16 + u8 + u32 + u32 + u8 + u32 + u32)
SMX_HEADER_LEN == 4 + 2 + 1 + 4 + 4 + 1 + 4 + 4

\* size_of!(u32 + u32 + u32)
SMX_SECTION_INFO_LEN == 4 + 4 + 4

Orders == {"Little", "Big"}
Levels == {"NoCompression", "DefaultLevel", "UberCompression"}

-----------------------------------------------------------------------------
(* The zlib codec (miniz_oxide), called at smx.rs:228 and smx.rs:374.  The  *)
(* model keeps what the container relies on: a two-byte header that names   *)
(* the level, a body whose length differs from the data's (run lengths), a  *)
(* trailing checksum, and a decoder that rejects whatever the encoder       *)
(* cannot have produced.                                                    *)

\* The FLG byte zlib writes for a level.
LevelFlag(lvl) ==
    CASE lvl = "NoCompression" -> 1
      [] lvl = "DefaultLevel" -> 156
      [] lvl = "UberCompression" -> 218

RECURSIVE ByteSum(_, _)
ByteSum(data, i) ==
    IF i > Len(data) THEN 0 ELSE data[i] + ByteSum(data, i + 1)

Checksum(data) == (1 + ByteSum(data, 1)) % 256

\* The length of the run of equal bytes that starts at index i (at most 255).
RECURSIVE RunLen(_, _, _)
RunLen(data, i, n) ==
    IF i + n <= Len(data) /\ data[i + n] = data[i] /\ n < 255
    THEN RunLen(data, i, n + 1)
    ELSE n

RECURSIVE Runs(_, _)
Runs(data, i) ==
    IF i > Len(data) THEN <<0>>
    ELSE LET n == RunLen(data, i, 1)
         IN  <<n, data[i]>> \o Runs(data, i + n)

\* compress_to_vec_zlib(&sec_data, compression_level as _)
CompressToVecZlib(data, lvl) ==
    <<120, LevelFlag(lvl)>> \o Runs(data, 1) \o <<Checksum(data)>>

RECURSIVE Unruns(_, _, _)
Unruns(bytes, i, out) ==
    IF i > Len(bytes) THEN None
    ELSE IF bytes[i] = 0
         THEN IF i + 1 = Len(bytes) /\ bytes[i + 1] = Checksum(out)
              THEN Some(out) ELSE None
    ELSE IF i + 1 > Len(bytes) THEN None
    ELSE Unruns(bytes, i + 2, out \o [k \in 1..bytes[i] |-> bytes[i + 1]])

\* decompress_to_vec_zlib(&compressed): the data, or None for a
\* DecompressError.
DecompressToVecZlib(bytes) ==
    IF Len(bytes) < 2 THEN None
    ELSE IF bytes[1] # 120 \/ bytes[2] \notin {1, 156, 218} THEN None
    ELSE Unruns(bytes, 3, <<>>)

-----------------------------------------------------------------------------
(* SectionMap implementations, src/src/smx.rs *)

\* The inner loop of BorrowedMap::new: the first other_idx >= other whose key
\* equals the key at idx.
RECURSIVE ScanOther(_, _, _)
ScanOther(inner, idx, other) ==
    IF other >= Len(inner) THEN None
    ELSE IF inner[idx + 1][1] = inner[other + 1][1] THEN Some(<<idx, other>>)
    ELSE ScanOther(inner, idx, other + 1)

\* The outer loop of BorrowedMap::new.
RECURSIVE ScanPairs(_, _)
ScanPairs(inner, idx) ==
    IF idx >= Len(inner) THEN None
    ELSE LET hit == ScanOther(inner, idx, 0)
         IN  IF hit.some THEN hit ELSE ScanPairs(inner, idx + 1)

\* BorrowedMap::new: Ok(map) or Err((idx, other_idx)).
BorrowedMapNew(inner) ==
    LET hit == ScanPairs(inner, 0)
    IN  IF hit.some
        THEN [ok |-> FALSE, err |-> hit.val]
        ELSE [ok |-> TRUE, map |-> inner]

\* BorrowedMap::new_unchecked
BorrowedMapNewUnchecked(inner) == inner

\* A HashMap is modelled by its entries <<name, data>>, no two with the same
\* name, in the order its iterator yields them.

\* A plausible slip: an insert that keeps the entry the map already has.
HashMapInsertKeepsFirst(m, name, data) ==
    IF \E k \in 1..Len(m) : m[k][1] = name
    THEN m
    ELSE Append(m, <<name, data>>)

\* HashMap::insert as used by write_section: a later insert of a name
\* replaces the data of the earlier entry.
HashMapInsert(m, name, data) ==
    IF \E k \in 1..Len(m) : m[k][1] = name
    THEN [k \in 1..Len(m) |-> IF m[k][1] = name THEN <<name, data>> ELSE m[k]]
    ELSE Append(m, <<name, data>>)

\* A HashMap filled by inserting pairs[lo..hi] in order into m.
RECURSIVE HashMapFrom(_, _, _, _)
HashMapFrom(pairs, lo, hi, m) ==
    IF lo > hi THEN m
    ELSE IF lo = hi THEN HashMapInsert(m, pairs[lo][1], pairs[lo][2])
    ELSE LET mid == (lo + hi) \div 2
         IN  CHOOSE r \in {HashMapFrom(pairs, mid + 1, hi, left) :
                             left \in {HashMapFrom(pairs, lo, mid, m)}} : TRUE

\* HashMap == HashMap: the same entries, whatever the order.
SameMap(a, b) ==
    {a[i] : i \in 1..Len(a)} = {b[i] : i \in 1..Len(b)}

\* Maps of up to this many entries are iterated in every order.
MaxPermuted == 3

\* HashMap::iter: the entries once each, in an order the map chooses.  Every
\* order is explored for a map of at most MaxPermuted entries, two orders
\* for a larger one.
HashMapIterOrders(m) ==
    LET n == Len(m)
    IN  IF n <= MaxPermuted
        THEN {[i \in 1..n |-> m[f[i]]] :
                f \in {g \in [1..n -> 1..n] :
                         \A a, b \in 1..n : a # b => g[a] # g[b]}}
        ELSE {m, Reverse(m)}

-----------------------------------------------------------------------------
(* write_to, src/src/smx.rs:180 *)

\* One turn of the loop over sections.iter(): the section's data is appended
\* to smx_data, its name inserted into strings, its SectionInfo pushed.
CollectSection(acc, pair) ==
    LET data_offset == Len(acc.smx_data)
        smx_data == acc.smx_data \o pair[2]
        length == Len(smx_data) - data_offset
        ins == Insert(acc.strings, pair[1])
    IN  [strings |-> ins.blob,
         section_infos |-> Append(acc.section_infos,
             [name_offset |-> ins.offset,
              data_offset |-> data_offset,
              length |-> length]),
         smx_data |-> smx_data]

\* The loop over sections.iter(), for the sections lo..hi in order: the
\* string table, the SectionInfo records (offsets relative to the payload)
\* and the concatenated section data.
RECURSIVE CollectSections(_, _, _, _)
CollectSections(secs, lo, hi, acc) ==
    IF lo > hi THEN acc
    ELSE IF lo = hi THEN CollectSection(acc, secs[lo])
    ELSE LET mid == (lo + hi) \div 2
         IN  CHOOSE r \in {CollectSections(secs, mid + 1, hi, left) :
                             left \in {CollectSections(secs, lo, mid, acc)}} : TRUE

\* A plausible slip: the payload is compressed whatever the level.
LayoutOfAlwaysCompresses(lvl, c, string_tbl_offset) ==
    [strings |-> c.strings,
     section_infos |-> c.section_infos,
     sec_data |-> c.smx_data,
     disk_sec_data |-> CompressToVecZlib(c.smx_data, lvl),
     string_tbl_offset |-> string_tbl_offset,
     data_offset |-> string_tbl_offset + TableLen(c.strings)]

\* What write_to has computed when it emits the header: c is the outcome of
\* the loop over the sections.
LayoutOf(lvl, c, string_tbl_offset) ==
    [strings |-> c.strings,
     section_infos |-> c.section_infos,
     sec_data |-> c.smx_data,
     disk_sec_data |-> IF lvl = "NoCompression" THEN c.smx_data
                       ELSE CompressToVecZlib(c.smx_data, lvl),
     string_tbl_offset |-> string_tbl_offset,
     data_offset |-> string_tbl_offset + TableLen(c.strings)]

LayoutAt(lvl, secs, string_tbl_offset) ==
    CHOOSE l \in
        {LayoutOf(lvl, c, string_tbl_offset) :
            c \in {CollectSections(secs, 1, Len(secs),
                    [strings |-> <<>>, section_infos |-> <<>>,
                     smx_data |-> <<>>])}} : TRUE

\* A plausible slip: the string table offset counts the records only.
LayoutForgetsHeader(lvl, secs) ==
    LayoutAt(lvl, secs, SMX_SECTION_INFO_LEN * Len(secs))

\* string_tbl_offset, data_offset and what they are computed from.
Layout(lvl, secs) ==
    LayoutAt(lvl, secs, SMX_HEADER_LEN + SMX_SECTION_INFO_LEN * Len(secs))

\* A plausible slip: the data offset is left relative to the payload.
InfoWritesRelative(E, data_offset, info) ==
    <<U32Bytes(E, info.name_offset),
      U32Bytes(E, info.data_offset),
      U32Bytes(E, info.length)>>

\* The three writes of one SectionInfo record.
InfoWrites(E, data_offset, info) ==
    <<U32Bytes(E, info.name_offset),
      U32Bytes(E, data_offset + info.data_offset),
      U32Bytes(E, info.length)>>

\* The writes of the loop over section_infos.
AllInfoWrites(E, data_offset, infos) ==
    ConcatRange([i \in 1..Len(infos) |-> InfoWrites(E, data_offset, infos[i])],
                1, Len(infos))

\* A plausible slip: disk size and image size written in each other's place.
HeaderWritesSwapsSizes(E, lvl, n, l) ==
    <<U32Bytes(E, FILE_MAGIC),
      U16Bytes(E, TARGET_VERSION),
      <<IF lvl # "NoCompression" THEN 1 ELSE 0>>,
      U32Bytes(E, l.data_offset + Len(l.sec_data)),
      U32Bytes(E, l.data_offset + Len(l.disk_sec_data)),
      <<AsU8(n)>>,
      U32Bytes(E, l.string_tbl_offset),
      U32Bytes(E, l.data_offset)>>

\* The eight writes of the header; n is sections.len().
HeaderWrites(E, lvl, n, l) ==
    <<U32Bytes(E, FILE_MAGIC),
      U16Bytes(E, TARGET_VERSION),
      <<IF lvl # "NoCompression" THEN 1 ELSE 0>>,
      U32Bytes(E, l.data_offset + Len(l.disk_sec_data)),
      U32Bytes(E, l.data_offset + Len(l.sec_data)),
      <<AsU8(n)>>,
      U32Bytes(E, l.string_tbl_offset),
      U32Bytes(E, l.data_offset)>>

\* The writes of write_to once the layout l is known.
WritesOf(E, lvl, n, l) ==
    HeaderWrites(E, lvl, n, l)
        \o AllInfoWrites(E, l.data_offset, l.section_infos)
        \o <<l.strings>>
        \o <<l.disk_sec_data>>

\* The calls write_to makes on the writer, one chunk of bytes per call.
WriteCalls(E, lvl, secs) ==
    CHOOSE w \in {WritesOf(E, lvl, Len(secs), l) :
                    l \in {Layout(lvl, secs)}} : TRUE

\* write_to into a writer that never fails (a Vec<u8>): the bytes written.
WriteTo(E, lvl, secs) ==
    CHOOSE bytes \in {ConcatRange(calls, 1, Len(calls)) :
                        calls \in {WriteCalls(E, lvl, secs)}} : TRUE

\* The error of the writer that fails its call k.
WriterError(k) == [kind |-> "Io", what |-> "writer", call |-> k]

\* A plausible slip: the error of a write is dropped and write_to goes on.
WriteCallsToIgnoresError(all, failAt) ==
    [failAt |-> failAt, calls |-> all,
     result |-> Some([tag |-> "Ok", val |-> "unit"])]

\* The writes `w.write_...(...)?` of write_to, all being the calls it makes
\* when none fails, on a writer that fails call failAt.val (or none): the
\* first error is returned as it is and nothing is written after it.
WriteCallsTo(all, failAt) ==
    IF failAt.some /\ failAt.val < Len(all)
    THEN [failAt |-> failAt,
          calls |-> SubSeq(all, 1, failAt.val + 1),
          result |-> Some([tag |-> "Err", err |-> WriterError(failAt.val)])]
    ELSE [failAt |-> failAt, calls |-> all,
          result |-> Some([tag |-> "Ok", val |-> "unit"])]

\* write_to on a writer that fails call failAt.val (or none).
WriteToWriter(E, lvl, secs, failAt) ==
    CHOOSE r \in {WriteCallsTo(all, failAt) :
                    all \in {WriteCalls(E, lvl, secs)}} : TRUE

\* The bytes a writer holds: those of the calls it did not fail.
WriterHolds(w) ==
    LET n == IF w.result.val.tag = "Err" THEN Len(w.calls) - 1
             ELSE Len(w.calls)
    IN  ConcatRange(w.calls, 1, n)

-----------------------------------------------------------------------------
(* Reading, src/src/smx.rs:284.  The reader r is a Cursor over the bytes of *)
(* the file: a read past the end yields no byte, a seek never fails.        *)

Min(a, b) == IF a <= b THEN a ELSE b

Ok(v) == [tag |-> "Ok", val |-> v]
Err(e) == [tag |-> "Err", err |-> e]
\* An abort of the process (a panic), which no caller can handle.
Panic(what) == [tag |-> "Panic", what |-> what]

IoEof == [kind |-> "Io", what |-> "UnexpectedEof"]

\* The bytes of s at offsets [pos, pos + n), as far as s has them.
Avail(s, pos, n) == SubSeq(s, pos + 1, Min(pos + n, Len(s)))

\* The reader as read_no_magic_from builds it: uncomp stands where the last
\* read left it (behind the string table, or at the end of the file once
\* the compressed payload was read), the Gz cursor at 0.
MurNew(ctx) ==
    [upos |-> IF ctx.gz /\ Len(ctx.file) > ctx.data_offset
              THEN Len(ctx.file) ELSE ctx.data_offset,
     cpos |-> 0]

\* Seek for MaybeUncompressedReader with SeekFrom::Start(pos).  A reader is
\* [upos, cpos]: the position of uncomp and of the Gz cursor.
MurSeekStart(ctx, rd, pos) ==
    IF ~ctx.gz THEN [rd EXCEPT !.upos = pos]
    ELSE IF pos >= ctx.data_offset
         THEN [upos |-> pos, cpos |-> pos - ctx.data_offset]
         ELSE [rd EXCEPT !.upos = pos]

\* stream_position() is seek(SeekFrom::Current(0)): the position of uncomp,
\* and in Gz mode the cursor follows when that position is in the payload.
MurStreamPosition(ctx, rd) ==
    [pos |-> rd.upos, rd |-> MurSeekStart(ctx, rd, rd.upos)]

\* A plausible slip: the end of the decompressed payload is reported without
\* the offset of the payload.
MurSeekEndForgetsOffset(ctx, rd) ==
    IF ~ctx.gz
    THEN [pos |-> Len(ctx.file), rd |-> [rd EXCEPT !.upos = Len(ctx.file)]]
    ELSE [pos |-> Len(ctx.decomp),
          rd |-> [rd EXCEPT !.cpos = Len(ctx.decomp)]]

\* Seek with SeekFrom::End(0): the end of the stream as the reader sees it.
MurSeekEnd(ctx, rd) ==
    IF ~ctx.gz
    THEN [pos |-> Len(ctx.file), rd |-> [rd EXCEPT !.upos = Len(ctx.file)]]
    ELSE [pos |-> ctx.data_offset + Len(ctx.decomp),
          rd |-> [rd EXCEPT !.cpos = Len(ctx.decomp)]]

\* One call of Read::read for a buffer of n bytes: the bytes read and the
\* reader afterwards.
MurRead(ctx, rd, n) ==
    IF ~ctx.gz
    THEN LET got == Avail(ctx.file, rd.upos, n)
         IN  [got |-> got, rd |-> [rd EXCEPT !.upos = rd.upos + Len(got)]]
    ELSE IF rd.upos < ctx.data_offset
    THEN LET to_read == Min(ctx.data_offset - rd.upos, n)
             got == Avail(ctx.file, rd.upos, to_read)
         IN  [got |-> got, rd |-> [rd EXCEPT !.upos = rd.upos + Len(got)]]
    ELSE LET got == Avail(ctx.decomp, rd.cpos, n)
         IN  [got |-> got, rd |-> [rd EXCEPT !.cpos = rd.cpos + Len(got)]]

\* Read::read_exact: read until the buffer is full; a read of no byte is an
\* UnexpectedEof error.
RECURSIVE MurReadExact(_, _, _, _)
MurReadExact(ctx, rd, n, acc) ==
    IF n = 0 THEN [ok |-> TRUE, bytes |-> acc, rd |-> rd]
    ELSE LET r == MurRead(ctx, rd, n)
         IN  IF Len(r.got) = 0 THEN [ok |-> FALSE, rd |-> r.rd]
             ELSE MurReadExact(ctx, r.rd, n - Len(r.got), acc \o r.got)

\* The sink of a read: WriteSmx::write_section is called with (name, data);
\* the call whose index is in failing_calls returns Err.
SinkAccepts(failing_calls, index) == index \notin failing_calls

\* A plausible slip: the outcome of write_section is dropped and the loop
\* goes on.
WriteSectionIgnoresError(failing_calls, section, st, call) ==
    [st EXCEPT !.calls = Append(st.calls, call), !.at = section]

\* A plausible slip: a failure of write_section empties the sink.
WriteSectionRollsBack(failing_calls, section, st, call) ==
    IF ~SinkAccepts(failing_calls, Len(st.calls))
    THEN [st EXCEPT !.calls = <<>>,
                    !.result = Some(Err([kind |-> "Writer",
                                         error |-> Len(st.calls)])),
                    !.at = section]
    ELSE [st EXCEPT !.calls = Append(st.calls, call), !.at = section]

\* smx.write_section(name, data).map_err(SmxError::Writer)?: the call is
\* made, and its error, which the model takes to be the number of the
\* call, ends the read.
WriteSection(failing_calls, section, st, call) ==
    IF ~SinkAccepts(failing_calls, Len(st.calls))
    THEN [st EXCEPT !.calls = Append(st.calls, call),
                    !.result = Some(Err([kind |-> "Writer",
                                         error |-> Len(st.calls)])),
                    !.at = section]
    ELSE [st EXCEPT !.calls = Append(st.calls, call), !.at = section]

\* One turn of the loop over 0..n_sections of read_no_magic_from.  st is
\* [rd, calls, result, at]: the reader, the calls made on the sink so far,
\* None or the Err the function returned with, and the turn it returned in.
ReadSection(E, ctx, strings, failing_calls, section, st) ==
    LET stop(e) == [st EXCEPT !.result = Some(Err(e)), !.at = section]
        r1 == MurReadExact(ctx, st.rd, 4, <<>>)
    IN  IF ~r1.ok THEN stop(IoEof)
    ELSE
    LET name_offset == U32From(E, r1.bytes)
        name == GetCString(strings, name_offset)
    IN  IF ~name.some
        THEN stop([kind |-> "SectionNameOffset",
                   section |-> section,
                   name_offset |-> name_offset,
                   string_table_size |-> TableLen(strings)])
    ELSE
    LET r2 == MurReadExact(ctx, r1.rd, 4, <<>>)
    IN  IF ~r2.ok THEN stop(IoEof)
    ELSE
    LET r3 == MurReadExact(ctx, r2.rd, 4, <<>>)
    IN  IF ~r3.ok THEN stop(IoEof)
    ELSE
    LET data_offset == U32From(E, r2.bytes)
        data_size == U32From(E, r3.bytes)
        pos_last == MurStreamPosition(ctx, r3.rd)
        r4 == MurReadExact(ctx, MurSeekStart(ctx, pos_last.rd, data_offset),
                           data_size, <<>>)
    IN  IF ~r4.ok THEN stop(IoEof)
    ELSE
    WriteSection(failing_calls, section,
                 [st EXCEPT !.rd = MurSeekStart(ctx, r4.rd, pos_last.pos)],
                 [name |-> name.val, data |-> r4.bytes])

\* The loop `for section in 0..n_sections`, for the sections lo..hi in
\* order; once a turn has returned an error no later turn runs.
RECURSIVE ReadSections(_, _, _, _, _, _, _)
ReadSections(E, ctx, strings, failing_calls, lo, hi, st) ==
    IF lo > hi \/ st.result.some THEN st
    ELSE IF lo = hi THEN ReadSection(E, ctx, strings, failing_calls, lo, st)
    ELSE LET mid == (lo + hi) \div 2
         IN  CHOOSE r \in
                {ReadSections(E, ctx, strings, failing_calls, mid + 1, hi,
                              left) :
                    left \in {ReadSections(E, ctx, strings, failing_calls,
                                           lo, mid, st)}} : TRUE

\* Where a read returned from: a step of the header, or the turn of the
\* loop over the records, or the end of the function.
At(stage) == [stage |-> stage]
AtRecord(section) == [stage |-> "record", section |-> section]

\* read_no_magic_from from `r.seek(SeekFrom::End(0))` on: ctx holds what the
\* MaybeUncompressedReader was built with.
ReadImage(E, ctx, strings, image_size, n_sections, failing_calls) ==
    LET rd0 == MurNew(ctx)
        end == MurSeekEnd(ctx, rd0)
        pos_sections == SMX_HEADER_LEN
    IN
    IF end.pos # image_size
    THEN [result |-> Err([kind |-> "NotAtImageSize", declared |-> image_size,
                          actual |-> end.pos]),
          calls |-> <<>>, stopped |-> At("image_size")]
    ELSE
    CHOOSE out \in
        {[result |-> IF st.result.some THEN st.result.val ELSE Ok("unit"),
          calls |-> st.calls,
          stopped |-> IF st.result.some THEN AtRecord(st.at) ELSE At("end")] :
            st \in {ReadSections(E, ctx, strings, failing_calls,
                        0, n_sections - 1,
                        [rd |-> MurSeekStart(ctx, end.rd, pos_sections),
                         calls |-> <<>>, result |-> None, at |-> 0])}} : TRUE

\* A plausible slip: the disk size is compared for an uncompressed file
\* too.
ReadFieldsAlwaysChecksDiskSize(E, bytes, failing_calls, has_checks) ==
    LET fail(stage, e) ==
            [result |-> Err(e), calls |-> <<>>, stopped |-> At(stage)]
        abort(stage, w) ==
            [result |-> Panic(w), calls |-> <<>>, stopped |-> At(stage)]
    IN
    IF Len(bytes) < SMX_HEADER_LEN THEN fail("header", IoEof)
    ELSE
    LET gz == bytes[7] = 1
        disk_size == U32From(E, SubSeq(bytes, 8, 11))
        image_size == U32From(E, SubSeq(bytes, 12, 15))
        n_sections == bytes[16]
        string_tbl_offset == U32From(E, SubSeq(bytes, 17, 20))
        data_offset == U32From(E, SubSeq(bytes, 21, 24))
    IN
    \* blob.resize((data_offset - string_tbl_offset) as _, 0)
    IF data_offset < string_tbl_offset
    THEN IF has_checks
         THEN abort("strings", "attempt to subtract with overflow")
         \* the wrapped length is at least 2^31: no file of the model is
         \* that long
         ELSE fail("strings", IoEof)
    \* r.read_exact(&mut blob) at string_tbl_offset
    ELSE IF data_offset > string_tbl_offset /\ data_offset > Len(bytes)
    THEN fail("strings", IoEof)
    ELSE
    LET compressed == Avail(bytes, data_offset, Len(bytes))
    IN
    IF disk_size < data_offset /\ has_checks
    THEN abort("disk_size", "attempt to subtract with overflow")
    ELSE IF disk_size < data_offset
            \/ Len(compressed) # disk_size - data_offset
    THEN fail("disk_size", [kind |-> "NotAtDiskSize", size |-> Len(compressed)])
    ELSE IF gz /\ ~DecompressToVecZlib(compressed).some
    THEN fail("decompress", [kind |-> "Decompress"])
    ELSE
    CHOOSE out \in
        {ReadImage(E, ctx, strings, image_size, n_sections, failing_calls) :
            ctx \in {[file |-> bytes, gz |-> gz, data_offset |-> data_offset,
                      decomp |-> IF gz
                                 THEN DecompressToVecZlib(compressed).val
                                 ELSE <<>>]},
            \* CStrTable::from_blob(blob)
            strings \in {SubSeq(bytes, string_tbl_offset + 1, data_offset)}}
        : TRUE

\* read_no_magic_from once the compression byte is accepted: the rest of
\* the header, the string table, the payload and the records.  has_checks
\* tells whether the build traps on integer overflow (a debug build does, a
\* release build wraps).
ReadFields(E, bytes, failing_calls, has_checks) ==
    LET fail(stage, e) ==
            [result |-> Err(e), calls |-> <<>>, stopped |-> At(stage)]
        abort(stage, w) ==
            [result |-> Panic(w), calls |-> <<>>, stopped |-> At(stage)]
    IN
    IF Len(bytes) < SMX_HEADER_LEN THEN fail("header", IoEof)
    ELSE
    LET gz == bytes[7] = 1
        disk_size == U32From(E, SubSeq(bytes, 8, 11))
        image_size == U32From(E, SubSeq(bytes, 12, 15))
        n_sections == bytes[16]
        string_tbl_offset == U32From(E, SubSeq(bytes, 17, 20))
        data_offset == U32From(E, SubSeq(bytes, 21, 24))
    IN
    \* blob.resize((data_offset - string_tbl_offset) as _, 0)
    IF data_offset < string_tbl_offset
    THEN IF has_checks
         THEN abort("strings", "attempt to subtract with overflow")
         \* the wrapped length is at least 2^31: no file of the model is
         \* that long
         ELSE fail("strings", IoEof)
    \* r.read_exact(&mut blob) at string_tbl_offset
    ELSE IF data_offset > string_tbl_offset /\ data_offset > Len(bytes)
    THEN fail("strings", IoEof)
    ELSE
    LET compressed == Avail(bytes, data_offset, Len(bytes))
    IN
    IF gz /\ disk_size < data_offset /\ has_checks
    THEN abort("disk_size", "attempt to subtract with overflow")
    ELSE IF gz /\ (disk_size < data_offset
                   \/ Len(compressed) # disk_size - data_offset)
    THEN fail("disk_size", [kind |-> "NotAtDiskSize", size |-> Len(compressed)])
    ELSE IF gz /\ ~DecompressToVecZlib(compressed).some
    THEN fail("decompress", [kind |-> "Decompress"])
    ELSE
    CHOOSE out \in
        {ReadImage(E, ctx, strings, image_size, n_sections, failing_calls) :
            ctx \in {[file |-> bytes, gz |-> gz, data_offset |-> data_offset,
                      decomp |-> IF gz
                                 THEN DecompressToVecZlib(compressed).val
                                 ELSE <<>>]},
            \* CStrTable::from_blob(blob)
            strings \in {SubSeq(bytes, string_tbl_offset + 1, data_offset)}}
        : TRUE

\* A plausible slip: the compression byte is examined before the version.
ReadNoMagicFromCompressionFirst(E, bytes, failing_calls, has_checks) ==
    LET fail(stage, e) ==
            [result |-> Err(e), calls |-> <<>>, stopped |-> At(stage)]
    IN
    IF Len(bytes) < 7 THEN fail("version", IoEof)
    ELSE IF bytes[7] \notin {0, 1}
    THEN fail("compression", [kind |-> "Compression", byte |-> bytes[7]])
    ELSE IF U16From(E, SubSeq(bytes, 5, 6)) # TARGET_VERSION
    THEN fail("version",
              [kind |-> "Version", version |-> U16From(E, SubSeq(bytes, 5, 6))])
    ELSE ReadFields(E, bytes, failing_calls, has_checks)

\* read_no_magic_from::<E, S>: r stands right after the magic number.
ReadNoMagicFrom(E, bytes, failing_calls, has_checks) ==
    LET fail(stage, e) ==
            [result |-> Err(e), calls |-> <<>>, stopped |-> At(stage)]
    IN
    IF Len(bytes) < 6 THEN fail("version", IoEof)
    ELSE IF U16From(E, SubSeq(bytes, 5, 6)) # TARGET_VERSION
    THEN fail("version",
              [kind |-> "Version", version |-> U16From(E, SubSeq(bytes, 5, 6))])
    ELSE IF Len(bytes) < 7 THEN fail("compression", IoEof)
    ELSE IF bytes[7] \notin {0, 1}
    THEN fail("compression", [kind |-> "Compression", byte |-> bytes[7]])
    ELSE ReadFields(E, bytes, failing_calls, has_checks)

\* A plausible slip: the two byte orders are taken for each other.
InferEndiannessSwapped(magic_buf) ==
    IF U32Bytes("Little", FILE_MAGIC) = magic_buf THEN Ok("Big")
    ELSE IF U32Bytes("Big", FILE_MAGIC) = magic_buf THEN Ok("Little")
    ELSE Err(magic_buf)

\* infer_endianness on the first four bytes: FILE_MAGIC equals
\* u32::from_le_bytes(magic_buf) exactly when magic_buf is FILE_MAGIC's
\* little-endian encoding, and likewise for from_be_bytes.
InferEndianness(magic_buf) ==
    IF U32Bytes("Little", FILE_MAGIC) = magic_buf THEN Ok("Little")
    ELSE IF U32Bytes("Big", FILE_MAGIC) = magic_buf THEN Ok("Big")
    ELSE Err(magic_buf)

\* read_from: infer the byte order from the magic number, then read.
ReadFrom(bytes, failing_calls, has_checks) ==
    IF Len(bytes) < 4
    THEN [result |-> Err(IoEof), calls |-> <<>>, stopped |-> At("magic")]
    ELSE
    LET endianness == InferEndianness(SubSeq(bytes, 1, 4))
    IN  IF endianness.tag = "Err"
        THEN [result |-> Err([kind |-> "Magic", bytes |-> endianness.err]),
              calls |-> <<>>, stopped |-> At("magic")]
        ELSE CHOOSE out \in
                {IF r.result.tag = "Ok"
                 THEN [r EXCEPT !.result = Ok(endianness.val)]
                 ELSE r :
                    r \in {ReadNoMagicFrom(endianness.val, bytes,
                                           failing_calls, has_checks)}} : TRUE

\* Smx::write_section for every call, in order, on Smx::new().
SmxFromCalls(calls) ==
    HashMapFrom([i \in 1..Len(calls) |-> <<calls[i].name, calls[i].data>>],
                1, Len(calls), <<>>)

\* A plausible slip: the container is returned as far as it was filled when
\* read_from fails after it delivered a section.
SmxReadFromKeepsPartial(bytes, has_checks) ==
    CHOOSE out \in
        {IF r.result.tag = "Ok"
         THEN Ok([smx |-> SmxFromCalls(r.calls), endianness |-> r.result.val])
         ELSE IF r.result.tag = "Err" /\ Len(r.calls) > 0
         THEN Ok([smx |-> SmxFromCalls(r.calls),
                  endianness |-> InferEndianness(SubSeq(bytes, 1, 4)).val])
         ELSE r.result :
            r \in {ReadFrom(bytes, {}, has_checks)}} : TRUE

\* Smx::read_from: Ok((smx, endianness)) or the error of read_from; the
\* container read_from was filling is dropped on an error.
SmxReadFrom(bytes, has_checks) ==
    CHOOSE out \in
        {IF r.result.tag = "Ok"
         THEN Ok([smx |-> SmxFromCalls(r.calls), endianness |-> r.result.val])
         ELSE r.result :
            r \in {ReadFrom(bytes, {}, has_checks)}} : TRUE

-----------------------------------------------------------------------------
(* One container written and read back: the caller has pairs (name, data), *)
(* makes a SectionMap of them (BorrowedMap::new, BorrowedMap::new_unchecked *)
(* or the HashMap of an Smx), writes it with write_to and reads the bytes   *)
(* with Smx::read_from.                                                     *)

MaxSections == 2

SectionNames == {<<>>, <<98>>, <<97, 98>>}
SectionData == {<<>>, <<4, 20>>, <<7, 7, 7, 7, 7, 7, 7, 7>>}

\* The section count is written as one byte.
U8Range == 2 ^ 8

\* A slice of n pairs with pairwise different two-byte names.
BigSlice(n) ==
    [i \in 1..n |-> <<<<97 + ((i - 1) \div 16), 97 + ((i - 1) % 16)>>,
                      IF i <= 2 THEN <<i, i>> ELSE <<>>>>]

Slices ==
    SeqsUpTo(SectionNames \X SectionData, MaxSections)
        \cup {BigSlice(U8Range - 1), BigSlice(U8Range)}

IdleTable ==
    /\ table = <<>>
    /\ built = TRUE
    /\ history = <<>>
    /\ lookup = None

Init ==
    /\ IdleTable
    /\ IdleSink
    /\ IdleWriter
    /\ IdleCode
    /\ pc = "start"
    /\ slice \in Slices
    /\ newResult = None
    /\ kind = "none"
    /\ smx = <<>>
    /\ sections = <<>>
    /\ order = "Little"
    /\ level = "NoCompression"
    /\ file = <<>>
    /\ readResult = None

\* BorrowedMap::new(&slice)
BorrowedNew ==
    /\ pc = "start"
    /\ LET r == BorrowedMapNew(slice)
       IN  /\ newResult' = Some(r)
           /\ IF r.ok
              THEN /\ pc' = "map"
                   /\ kind' = "BorrowedMap"
                   /\ sections' = r.map
              ELSE /\ pc' = "rejected"
                   /\ UNCHANGED <<kind, sections>>
    /\ UNCHANGED <<slice, smx, order, level, file, readResult>>
    /\ UNCHANGED <<tableVars, codeVars, reader>>
    /\ UNCHANGED <<sinkVars, writer>>

\* BorrowedMap::new_unchecked(&slice)
BorrowedNewUnchecked ==
    /\ pc = "start"
    /\ pc' = "map"
    /\ kind' = "BorrowedMap"
    /\ sections' = BorrowedMapNewUnchecked(slice)
    /\ UNCHANGED <<slice, newResult, smx, order, level, file, readResult>>
    /\ UNCHANGED <<tableVars, codeVars, reader>>
    /\ UNCHANGED <<sinkVars, writer>>

\* An Smx whose sections are the pairs, inserted in order; its HashMap
\* yields them to write_to in an order of its own.
SmxWithSections ==
    /\ pc = "start"
    /\ LET m == HashMapFrom(slice, 1, Len(slice), <<>>)
       IN  /\ smx' = m
           /\ sections' \in HashMapIterOrders(m)
    /\ pc' = "map"
    /\ kind' = "HashMap"
    /\ UNCHANGED <<slice, newResult, order, level, file, readResult>>
    /\ UNCHANGED <<tableVars, codeVars, reader>>
    /\ UNCHANGED <<sinkVars, writer>>

\* write_to::<E, M>(&mut Vec::new(), compression_level, &map)
Write ==
    /\ pc = "map"
    /\ \E E \in Orders, lvl \in Levels :
        \E r \in {WriteToWriter(E, lvl, sections, None)} :
            /\ order' = E
            /\ level' = lvl
            /\ writer' = r
            /\ file' = WriterHolds(r)
    /\ pc' = "written"
    /\ UNCHANGED <<slice, newResult, kind, smx, sections, readResult>>
    /\ UNCHANGED <<tableVars, codeVars, reader>>
    /\ UNCHANGED sinkVars

\* Smx::read_from(&mut Cursor::new(file))
Read ==
    /\ pc \in {"written", "headed", "patched"}
    /\ \E has_checks \in BOOLEAN :
        readResult' = Some(SmxReadFrom(file, has_checks))
    /\ pc' = "read"
    /\ UNCHANGED <<slice, newResult, kind, smx, sections, order, level, file>>
    /\ UNCHANGED <<tableVars, codeVars, reader>>
    /\ UNCHANGED <<sinkVars, writer>>

\* The calls a writer is made to fail, of the n calls of a write: any call
\* of a write of up to 32 calls; the first call, the first write of a
\* record and the last call of a longer one.
FailPoints(n) == {k \in 0..(n - 1) : n <= 32 \/ k \in {0, 8, n - 1}}

\* write_to::<E, M>(&mut w, compression_level, &map) for a writer w that
\* fails one of the write calls.
WriteFails ==
    /\ pc = "map"
    /\ \E E \in Orders, lvl \in Levels :
        \E all \in {WriteCalls(E, lvl, sections)} :
        \E k \in FailPoints(Len(all)) :
        \E r \in {WriteCallsTo(all, Some(k))} :
            /\ order' = E
            /\ level' = lvl
            /\ writer' = r
            /\ file' = WriterHolds(r)
    /\ pc' = "refused"
    /\ UNCHANGED <<slice, newResult, kind, smx, sections, readResult>>
    /\ UNCHANGED <<tableVars, codeVars, reader>>
    /\ UNCHANGED sinkVars

Next ==
    \/ BorrowedNew \/ BorrowedNewUnchecked \/ SmxWithSections
    \/ Write \/ WriteFails \/ Read

Spec == Init /\ [][Next]_vars

-----------------------------------------------------------------------------
(* One file read into a sink: the caller writes a container with write_to,  *)
(* the file is altered before it is read (a byte of the header, a field, a  *)
(* record, the length), and read_from reads it into a sink whose            *)
(* write_section may fail.  SpecRead explores the files a reader can meet.  *)

ReadSlices ==
    {<<>>,
     << <<<<98>>, <<4, 20>>>> >>,
     << <<<<97, 98>>, <<7, 7, 7, 7, 7, 7, 7, 7>>>>, <<<<98>>, <<4, 20>>>> >>,
     << <<<<98>>, <<4, 20>>>>, <<<<98>>, <<>>>> >>}

\* The sinks: which of the first calls of write_section fail.
FailingSets == SUBSET {0, 1}

InitRead ==
    /\ IdleTable
    /\ IdleSink
    /\ IdleWriter
    /\ IdleCode
    /\ pc = "start"
    /\ slice \in ReadSlices
    /\ newResult = None
    /\ kind = "none"
    /\ smx = <<>>
    /\ sections = <<>>
    /\ order = "Little"
    /\ level = "NoCompression"
    /\ file = <<>>
    /\ readResult = None

\* The bytes f with the bytes bs at offset off (all of bs lies within f).
SetBytes(f, off, bs) ==
    [i \in 1..Len(f) |->
        IF i > off /\ i <= off + Len(bs) THEN bs[i - off] ELSE f[i]]

\* Files that differ from f in the magic number, the version or the
\* compression byte.
HeadEdits(f) ==
    {SetBytes(f, 0, m) : m \in {<<70, 70, 80, 83>>, <<83, 80, 70, 70>>,
                                <<0, 0, 0, 0>>, <<70, 70, 80, 84>>,
                                <<83, 80, 70, 71>>}}
    \cup {SetBytes(f, 4, v) : v \in {<<2, 1>>, <<1, 2>>, <<0, 0>>, <<3, 1>>}}
    \cup {SetBytes(f, 6, <<c>>) : c \in {0, 1, 2, 255}}
    \cup {SetBytes(f, 4, <<v[1], v[2], 2>>) : v \in {<<2, 1>>, <<1, 2>>}}

\* The values a 32-bit field holding v is set to, in a file f whose string
\* table has tbl bytes and whose payload starts at pay.
FieldValues(f, v, tbl, pay) ==
    {n \in {0, v - 1, v + 1, tbl, pay - 1, Len(f), 2 ^ 30} : n >= 0 /\ n # v}

\* Files that differ from f (written in byte order E) in one field after the
\* compression byte, in one field of a record, in the last byte of the
\* string table, or in length.
BodyEdits(E, f) ==
    LET n == f[16]
        at(off) == U32From(E, SubSeq(f, off + 1, off + 4))
        sto == at(16)
        pay == at(20)
        offs == {7, 11, 16, 20}
                  \cup {SMX_HEADER_LEN + SMX_SECTION_INFO_LEN * k + 4 * j :
                            k \in 0..(n - 1), j \in 0..2}
    IN  {SetBytes(f, off, U32Bytes(E, v)) :
            off \in offs, v \in UNION {FieldValues(f, at(o), pay - sto, pay) :
                                            o \in offs}}
        \cup {SetBytes(f, 15, <<c>>) : c \in {0, n + 1}}
        \cup {SetBytes(f, pay - 1, <<97>>) : x \in {y \in {0} : pay > sto}}
        \cup {SubSeq(f, 1, l) :
                l \in {k \in 0..(Len(f) - 1) :
                         k <= SMX_HEADER_LEN + 4 \/ k >= Len(f) - 2
                            \/ k \in {sto, pay}}}
        \cup {f \o <<0>>}

\* The header of the file is altered before the read.
PatchHead ==
    /\ pc = "written"
    /\ file' \in HeadEdits(file) \ {file}
    /\ pc' = "headed"
    /\ UNCHANGED <<slice, newResult, kind, smx, sections, order, level,
                   readResult>>
    /\ UNCHANGED <<tableVars, codeVars, reader>>
    /\ UNCHANGED <<sinkVars, writer>>

\* A field, a record, the string table or the length of the file is altered
\* before the read.
PatchBody ==
    /\ pc \in {"written", "headed"}
    /\ file' \in BodyEdits(order, file) \ {file}
    /\ pc' = "patched"
    /\ UNCHANGED <<slice, newResult, kind, smx, sections, order, level,
                   readResult>>
    /\ UNCHANGED <<tableVars, codeVars, reader>>
    /\ UNCHANGED <<sinkVars, writer>>

\* read_from(&mut Cursor::new(file), &mut sink)
ReadInto ==
    /\ pc \in {"written", "headed", "patched"}
    /\ \E failing_calls \in FailingSets, has_checks \in BOOLEAN :
        \E r \in {ReadFrom(file, failing_calls, has_checks)} :
            /\ readResult' = Some(r.result)
            /\ sinkCalls' = r.calls
            /\ stopped' = Some(r.stopped)
            /\ failing' = failing_calls
            /\ checks' = has_checks
    /\ pc' = "done"
    /\ UNCHANGED <<slice, newResult, kind, smx, sections, order, level, file>>
    /\ UNCHANGED <<tableVars, writer, codeVars, reader>>

NextRead ==
    BorrowedNewUnchecked \/ Write \/ PatchHead \/ PatchBody \/ ReadInto
        \/ Read

SpecRead == InitRead /\ [][NextRead]_vars

-----------------------------------------------------------------------------
(* Cells (src/src/vm_types.rs) and instructions (src/src/opcodes.rs).      *)
(*                                                                         *)
(* A Cell is an i32.  read_cell and write_cell move it in the byte order   *)
(* byteorder::NativeEndian, which is LittleEndian or BigEndian by the      *)
(* target the crate was built for: the operators take that order as        *)
(* `native`.  An Instruction is [variant, fields], fields a function from  *)
(* the variant's field names to cells.                                     *)

\* read_i32::<E>: the four bytes as a two's complement number.
I32From(E, b) ==
    LET le == IF E = "Little" THEN b ELSE Reverse(b)
    IN  le[1] + 256 * le[2] + 65536 * le[3]
            + 16777216 * (IF le[4] >= 128 THEN le[4] - 256 ELSE le[4])

\* write_cell(writer, cell): writer.write_i32::<Ne>(cell)
WriteCell(native, cell) == U32Bytes(native, cell)

\* read_cell(reader) on a cursor at pos of bytes: reader.read_i32::<Ne>()
ReadCell(native, bytes, pos) ==
    IF pos + 4 > Len(bytes)
    THEN Err(IoEof)
    ELSE Ok([cell |-> I32From(native, SubSeq(bytes, pos + 1, pos + 4)),
             pos |-> pos + 4])

\* enum Instruction: the fields of each variant, in the order of their
\* declaration.
InstructionFields ==
    [None |-> <<>>,
     LoadPri |-> <<"offset">>,
     LoadAlt |-> <<"offset">>,
     LoadSPri |-> <<"offset">>,
     LoadSAlt |-> <<"offset">>,
     LrefSPri |-> <<"offset">>,
     LrefSAlt |-> <<"offset">>,
     LoadI |-> <<>>,
     LodbI |-> <<"width">>,
     ConstPri |-> <<"value">>,
     ConstAlt |-> <<"value">>,
     AddrPri |-> <<"offset">>,
     AddrAlt |-> <<"offset">>,
     StorPri |-> <<"offset">>,
     StorAlt |-> <<"offset">>,
     StorSPri |-> <<"offset">>,
     StorSAlt |-> <<"offset">>,
     SrefSPri |-> <<"offset">>,
     SrefSAlt |-> <<"offset">>,
     StorI |-> <<>>,
     StrbI |-> <<"width">>,
     Lidx |-> <<>>,
     Idxaddr |-> <<>>,
     MovePri |-> <<>>,
     MoveAlt |-> <<>>,
     Xchg |-> <<>>,
     PushPri |-> <<>>,
     PushAlt |-> <<>>,
     PushC |-> <<"const_1">>,
     Push |-> <<"addr_1">>,
     PushS |-> <<"stack_1">>,
     PopPri |-> <<>>,
     PopAlt |-> <<>>,
     Stack |-> <<"const_1">>,
     Heap |-> <<"const_1">>,
     Proc |-> <<>>,
     Retn |-> <<>>,
     Call |-> <<"func_1">>,
     Jump |-> <<"jump_1">>,
     Jzer |-> <<"jump_1">>,
     Jnz |-> <<"jump_1">>,
     Jeq |-> <<"jump_1">>,
     Jneq |-> <<"jump_1">>,
     Jsless |-> <<"jump_1">>,
     Jsleq |-> <<"jump_1">>,
     Jsgrtr |-> <<"jump_1">>,
     Jsgeq |-> <<"jump_1">>,
     Shl |-> <<>>,
     Shr |-> <<>>,
     Sshr |-> <<>>,
     ShlCPri |-> <<"const_1">>,
     ShlCAlt |-> <<"const_1">>,
     Smul |-> <<>>,
     Sdiv |-> <<>>,
     SdivAlt |-> <<>>,
     Add |-> <<>>,
     Sub |-> <<>>,
     SubAlt |-> <<>>,
     And |-> <<>>,
     Or |-> <<>>,
     Xor |-> <<>>,
     Not |-> <<>>,
     Neg |-> <<>>,
     Invert |-> <<>>,
     AddC |-> <<"const_1">>,
     SmulC |-> <<"const_1">>,
     ZeroPri |-> <<>>,
     ZeroAlt |-> <<>>,
     Zero |-> <<"addr_1">>,
     ZeroS |-> <<"stack_1">>,
     Eq |-> <<>>,
     Neq |-> <<>>,
     Sless |-> <<>>,
     Sleq |-> <<>>,
     Sgrtr |-> <<>>,
     Sgeq |-> <<>>,
     EqCPri |-> <<"const_1">>,
     EqCAlt |-> <<"const_1">>,
     IncPri |-> <<>>,
     IncAlt |-> <<>>,
     Inc |-> <<"addr_1">>,
     IncS |-> <<"stack_1">>,
     IncI |-> <<>>,
     DecPri |-> <<>>,
     DecAlt |-> <<>>,
     Dec |-> <<"addr_1">>,
     DecS |-> <<"stack_1">>,
     DecI |-> <<>>,
     Movs |-> <<"const_1">>,
     Fill |-> <<"const_1">>,
     Halt |-> <<"const_1">>,
     Bounds |-> <<"const_1">>,
     SysreqC |-> <<"native_1">>,
     Switch |-> <<"jump_1">>,
     Casetbl |-> <<"const_1", "jump_1">>,
     SwapPri |-> <<>>,
     SwapAlt |-> <<>>,
     PushAdr |-> <<"stack_1">>,
     Nop |-> <<>>,
     SysreqN |-> <<"native", "n_args">>,
     Break |-> <<>>,
     Push2C |-> <<"const_1", "const_2">>,
     Push2 |-> <<"addr_1", "addr_2">>,
     Push2S |-> <<"stack_1", "stack_2">>,
     Push2Adr |-> <<"stack_1", "stack_2">>,
     Push3C |-> <<"const_1", "const_2", "const_3">>,
     Push3 |-> <<"addr_1", "addr_2", "addr_3">>,
     Push3S |-> <<"stack_1", "stack_2", "stack_3">>,
     Push3Adr |-> <<"stack_1", "stack_2", "stack_3">>,
     Push4C |-> <<"const_1", "const_2", "const_3", "const_4">>,
     Push4 |-> <<"addr_1", "addr_2", "addr_3", "addr_4">>,
     Push4S |-> <<"stack_1", "stack_2", "stack_3", "stack_4">>,
     Push4Adr |-> <<"stack_1", "stack_2", "stack_3", "stack_4">>,
     Push5C |-> <<"const_1", "const_2", "const_3", "const_4", "const_5">>,
     Push5 |-> <<"addr_1", "addr_2", "addr_3", "addr_4", "addr_5">>,
     Push5S |-> <<"stack_1", "stack_2", "stack_3", "stack_4", "stack_5">>,
     Push5Adr |-> <<"stack_1", "stack_2", "stack_3", "stack_4", "stack_5">>,
     LoadBoth |-> <<"addr_1", "addr_2">>,
     LoadSBoth |-> <<"stack_1", "stack_2">>,
     Const |-> <<"addr_1", "const_1">>,
     ConstS |-> <<"stack_1", "const_1">>,
     TrackerPushC |-> <<"const_1">>,
     TrackerPopSetheap |-> <<>>,
     Genarray |-> <<"const_1">>,
     GenarrayZ |-> <<"const_1">>,
     StradjustPri |-> <<>>,
     Endproc |-> <<>>,
     InitarrayPri |-> <<"addr_1", "const_1", "const_2", "const_3", "const_4">>,
     InitarrayAlt |-> <<"addr_1", "const_1", "const_2", "const_3", "const_4">>,
     HeapSave |-> <<>>,
     HeapRestore |-> <<>>,
     Fabs |-> <<>>,
     Float |-> <<>>,
     Floatadd |-> <<>>,
     Floatsub |-> <<>>,
     Floatmul |-> <<>>,
     Floatdiv |-> <<>>,
     RndToNearest |-> <<>>,
     RndToFloor |-> <<>>,
     RndToCeil |-> <<>>,
     RndToZero |-> <<>>,
     Floatcmp |-> <<>>,
     FloatGt |-> <<>>,
     FloatGe |-> <<>>,
     FloatLt |-> <<>>,
     FloatLe |-> <<>>,
     FloatNe |-> <<>>,
     FloatEq |-> <<>>,
     FloatNot |-> <<>>]

\* The arms of the match in Instruction::write_to: the tag written for a
\* variant and the fields written after it, in order.
WriteToArms ==
    [None |-> [tag |-> 0, writes |-> <<>>],
     LoadPri |-> [tag |-> 1, writes |-> <<"offset">>],
     LoadAlt |-> [tag |-> 2, writes |-> <<"offset">>],
     LoadSPri |-> [tag |-> 3, writes |-> <<"offset">>],
     LoadSAlt |-> [tag |-> 4, writes |-> <<"offset">>],
     LrefSPri |-> [tag |-> 7, writes |-> <<"offset">>],
     LrefSAlt |-> [tag |-> 8, writes |-> <<"offset">>],
     LoadI |-> [tag |-> 9, writes |-> <<>>],
     LodbI |-> [tag |-> 10, writes |-> <<"width">>],
     ConstPri |-> [tag |-> 11, writes |-> <<"value">>],
     ConstAlt |-> [tag |-> 12, writes |-> <<"value">>],
     AddrPri |-> [tag |-> 13, writes |-> <<"offset">>],
     AddrAlt |-> [tag |-> 14, writes |-> <<"offset">>],
     StorPri |-> [tag |-> 15, writes |-> <<"offset">>],
     StorAlt |-> [tag |-> 16, writes |-> <<"offset">>],
     StorSPri |-> [tag |-> 17, writes |-> <<"offset">>],
     StorSAlt |-> [tag |-> 18, writes |-> <<"offset">>],
     SrefSPri |-> [tag |-> 21, writes |-> <<"offset">>],
     SrefSAlt |-> [tag |-> 22, writes |-> <<"offset">>],
     StorI |-> [tag |-> 23, writes |-> <<>>],
     StrbI |-> [tag |-> 24, writes |-> <<"width">>],
     Lidx |-> [tag |-> 25, writes |-> <<>>],
     Idxaddr |-> [tag |-> 27, writes |-> <<>>],
     MovePri |-> [tag |-> 33, writes |-> <<>>],
     MoveAlt |-> [tag |-> 34, writes |-> <<>>],
     Xchg |-> [tag |-> 35, writes |-> <<>>],
     PushPri |-> [tag |-> 36, writes |-> <<>>],
     PushAlt |-> [tag |-> 37, writes |-> <<>>],
     PushC |-> [tag |-> 39, writes |-> <<"const_1">>],
     Push |-> [tag |-> 40, writes |-> <<"addr_1">>],
     PushS |-> [tag |-> 41, writes |-> <<"stack_1">>],
     PopPri |-> [tag |-> 42, writes |-> <<>>],
     PopAlt |-> [tag |-> 43, writes |-> <<>>],
     Stack |-> [tag |-> 44, writes |-> <<"const_1">>],
     Heap |-> [tag |-> 45, writes |-> <<"const_1">>],
     Proc |-> [tag |-> 46, writes |-> <<>>],
     Retn |-> [tag |-> 48, writes |-> <<>>],
     Call |-> [tag |-> 49, writes |-> <<"func_1">>],
     Jump |-> [tag |-> 51, writes |-> <<"jump_1">>],
     Jzer |-> [tag |-> 53, writes |-> <<"jump_1">>],
     Jnz |-> [tag |-> 54, writes |-> <<"jump_1">>],
     Jeq |-> [tag |-> 55, writes |-> <<"jump_1">>],
     Jneq |-> [tag |-> 56, writes |-> <<"jump_1">>],
     Jsless |-> [tag |-> 61, writes |-> <<"jump_1">>],
     Jsleq |-> [tag |-> 62, writes |-> <<"jump_1">>],
     Jsgrtr |-> [tag |-> 63, writes |-> <<"jump_1">>],
     Jsgeq |-> [tag |-> 64, writes |-> <<"jump_1">>],
     Shl |-> [tag |-> 65, writes |-> <<>>],
     Shr |-> [tag |-> 66, writes |-> <<>>],
     Sshr |-> [tag |-> 67, writes |-> <<>>],
     ShlCPri |-> [tag |-> 68, writes |-> <<"const_1">>],
     ShlCAlt |-> [tag |-> 69, writes |-> <<"const_1">>],
     Smul |-> [tag |-> 72, writes |-> <<>>],
     Sdiv |-> [tag |-> 73, writes |-> <<>>],
     SdivAlt |-> [tag |-> 74, writes |-> <<>>],
     Add |-> [tag |-> 78, writes |-> <<>>],
     Sub |-> [tag |-> 79, writes |-> <<>>],
     SubAlt |-> [tag |-> 80, writes |-> <<>>],
     And |-> [tag |-> 81, writes |-> <<>>],
     Or |-> [tag |-> 82, writes |-> <<>>],
     Xor |-> [tag |-> 83, writes |-> <<>>],
     Not |-> [tag |-> 84, writes |-> <<>>],
     Neg |-> [tag |-> 85, writes |-> <<>>],
     Invert |-> [tag |-> 86, writes |-> <<>>],
     AddC |-> [tag |-> 87, writes |-> <<"const_1">>],
     SmulC |-> [tag |-> 88, writes |-> <<"const_1">>],
     ZeroPri |-> [tag |-> 89, writes |-> <<>>],
     ZeroAlt |-> [tag |-> 90, writes |-> <<>>],
     Zero |-> [tag |-> 91, writes |-> <<"addr_1">>],
     ZeroS |-> [tag |-> 92, writes |-> <<"stack_1">>],
     Eq |-> [tag |-> 95, writes |-> <<>>],
     Neq |-> [tag |-> 96, writes |-> <<>>],
     Sless |-> [tag |-> 101, writes |-> <<>>],
     Sleq |-> [tag |-> 102, writes |-> <<>>],
     Sgrtr |-> [tag |-> 103, writes |-> <<>>],
     Sgeq |-> [tag |-> 104, writes |-> <<>>],
     EqCPri |-> [tag |-> 105, writes |-> <<"const_1">>],
     EqCAlt |-> [tag |-> 106, writes |-> <<"const_1">>],
     IncPri |-> [tag |-> 107, writes |-> <<>>],
     IncAlt |-> [tag |-> 108, writes |-> <<>>],
     Inc |-> [tag |-> 109, writes |-> <<"addr_1">>],
     IncS |-> [tag |-> 110, writes |-> <<"stack_1">>],
     IncI |-> [tag |-> 111, writes |-> <<>>],
     DecPri |-> [tag |-> 112, writes |-> <<>>],
     DecAlt |-> [tag |-> 113, writes |-> <<>>],
     Dec |-> [tag |-> 114, writes |-> <<"addr_1">>],
     DecS |-> [tag |-> 115, writes |-> <<"stack_1">>],
     DecI |-> [tag |-> 116, writes |-> <<>>],
     Movs |-> [tag |-> 117, writes |-> <<"const_1">>],
     Fill |-> [tag |-> 119, writes |-> <<"const_1">>],
     Halt |-> [tag |-> 120, writes |-> <<"const_1">>],
     Bounds |-> [tag |-> 121, writes |-> <<"const_1">>],
     SysreqC |-> [tag |-> 123, writes |-> <<"native_1">>],
     Switch |-> [tag |-> 129, writes |-> <<"jump_1">>],
     Casetbl |-> [tag |-> 130, writes |-> <<"const_1", "jump_1">>],
     SwapPri |-> [tag |-> 131, writes |-> <<>>],
     SwapAlt |-> [tag |-> 132, writes |-> <<>>],
     PushAdr |-> [tag |-> 133, writes |-> <<"stack_1">>],
     Nop |-> [tag |-> 134, writes |-> <<>>],
     SysreqN |-> [tag |-> 135, writes |-> <<"native", "n_args">>],
     Break |-> [tag |-> 137, writes |-> <<>>],
     Push2C |-> [tag |-> 138, writes |-> <<"const_1", "const_2">>],
     Push2 |-> [tag |-> 139, writes |-> <<"addr_1", "addr_2">>],
     Push2S |-> [tag |-> 140, writes |-> <<"stack_1", "stack_2">>],
     Push2Adr |-> [tag |-> 141, writes |-> <<"stack_1", "stack_2">>],
     Push3C |-> [tag |-> 142, writes |-> <<"const_1", "const_2", "const_3">>],
     Push3 |-> [tag |-> 143, writes |-> <<"addr_1", "addr_2", "addr_3">>],
     Push3S |-> [tag |-> 144, writes |-> <<"stack_1", "stack_2", "stack_3">>],
     Push3Adr |-> [tag |-> 145, writes |-> <<"stack_1", "stack_2", "stack_3">>],
     Push4C |-> [tag |-> 146, writes |-> <<"const_1", "const_2", "const_3", "const_4">>],
     Push4 |-> [tag |-> 147, writes |-> <<"addr_1", "addr_2", "addr_3", "addr_4">>],
     Push4S |-> [tag |-> 148, writes |-> <<"stack_1", "stack_2", "stack_3", "stack_4">>],
     Push4Adr |-> [tag |-> 149, writes |-> <<"stack_1", "stack_2", "stack_3", "stack_4">>],
     Push5C |-> [tag |-> 150, writes |-> <<"const_1", "const_2", "const_3", "const_4", "const_5">>],
     Push5 |-> [tag |-> 151, writes |-> <<"addr_1", "addr_2", "addr_3", "addr_4", "addr_5">>],
     Push5S |-> [tag |-> 152, writes |-> <<"stack_1", "stack_2", "stack_3", "stack_4", "stack_5">>],
     Push5Adr |-> [tag |-> 153, writes |-> <<"stack_1", "stack_2", "stack_3", "stack_4", "stack_5">>],
     LoadBoth |-> [tag |-> 154, writes |-> <<"addr_1", "addr_2">>],
     LoadSBoth |-> [tag |-> 155, writes |-> <<"stack_1", "stack_2">>],
     Const |-> [tag |-> 156, writes |-> <<"addr_1", "const_1">>],
     ConstS |-> [tag |-> 157, writes |-> <<"stack_1", "const_1">>],
     TrackerPushC |-> [tag |-> 160, writes |-> <<"const_1">>],
     TrackerPopSetheap |-> [tag |-> 161, writes |-> <<>>],
     Genarray |-> [tag |-> 162, writes |-> <<"const_1">>],
     GenarrayZ |-> [tag |-> 163, writes |-> <<"const_1">>],
     StradjustPri |-> [tag |-> 164, writes |-> <<>>],
     Endproc |-> [tag |-> 166, writes |-> <<>>],
     InitarrayPri |-> [tag |-> 169, writes |-> <<"addr_1", "const_1", "const_2", "const_3", "const_4">>],
     InitarrayAlt |-> [tag |-> 170, writes |-> <<"addr_1", "const_1", "const_2", "const_3", "const_4">>],
     HeapSave |-> [tag |-> 171, writes |-> <<>>],
     HeapRestore |-> [tag |-> 172, writes |-> <<>>],
     Fabs |-> [tag |-> 174, writes |-> <<>>],
     Float |-> [tag |-> 175, writes |-> <<>>],
     Floatadd |-> [tag |-> 176, writes |-> <<>>],
     Floatsub |-> [tag |-> 177, writes |-> <<>>],
     Floatmul |-> [tag |-> 178, writes |-> <<>>],
     Floatdiv |-> [tag |-> 179, writes |-> <<>>],
     RndToNearest |-> [tag |-> 180, writes |-> <<>>],
     RndToFloor |-> [tag |-> 181, writes |-> <<>>],
     RndToCeil |-> [tag |-> 182, writes |-> <<>>],
     RndToZero |-> [tag |-> 183, writes |-> <<>>],
     Floatcmp |-> [tag |-> 184, writes |-> <<>>],
     FloatGt |-> [tag |-> 185, writes |-> <<>>],
     FloatGe |-> [tag |-> 186, writes |-> <<>>],
     FloatLt |-> [tag |-> 187, writes |-> <<>>],
     FloatLe |-> [tag |-> 188, writes |-> <<>>],
     FloatNe |-> [tag |-> 189, writes |-> <<>>],
     FloatEq |-> [tag |-> 190, writes |-> <<>>],
     FloatNot |-> [tag |-> 191, writes |-> <<>>]]

\* The arm `opcode => Err(InvalidData)` of the match in Instruction::read_from.
NoVariant == [variant |-> "invalid opcode", reads |-> <<>>]

\* The arms of the match in Instruction::read_from for the tags 0, 1, 2,
\* ...: the variant built and the fields read after the tag, in order.
ReadFromArms ==
    <<[variant |-> "None", reads |-> <<>>],
      [variant |-> "LoadPri", reads |-> <<"offset">>],
      [variant |-> "LoadAlt", reads |-> <<"offset">>],
      [variant |-> "LoadSPri", reads |-> <<"offset">>],
      [variant |-> "LoadSAlt", reads |-> <<"offset">>],
      NoVariant,
      NoVariant,
      [variant |-> "LrefSPri", reads |-> <<"offset">>],
      [variant |-> "LrefSAlt", reads |-> <<"offset">>],
      [variant |-> "LoadI", reads |-> <<>>],
      [variant |-> "LodbI", reads |-> <<"width">>],
      [variant |-> "ConstPri", reads |-> <<"value">>],
      [variant |-> "ConstAlt", reads |-> <<"value">>],
      [variant |-> "AddrPri", reads |-> <<"offset">>],
      [variant |-> "AddrAlt", reads |-> <<"offset">>],
      [variant |-> "StorPri", reads |-> <<"offset">>],
      [variant |-> "StorAlt", reads |-> <<"offset">>],
      [variant |-> "StorSPri", reads |-> <<"offset">>],
      [variant |-> "StorSAlt", reads |-> <<"offset">>],
      NoVariant,
      NoVariant,
      [variant |-> "SrefSPri", reads |-> <<"offset">>],
      [variant |-> "SrefSAlt", reads |-> <<"offset">>],
      [variant |-> "StorI", reads |-> <<>>],
      [variant |-> "StrbI", reads |-> <<"width">>],
      [variant |-> "Lidx", reads |-> <<>>],
      NoVariant,
      [variant |-> "Idxaddr", reads |-> <<>>],
      NoVariant,
      NoVariant,
      NoVariant,
      NoVariant,
      NoVariant,
      [variant |-> "MovePri", reads |-> <<>>],
      [variant |-> "MoveAlt", reads |-> <<>>],
      [variant |-> "Xchg", reads |-> <<>>],
      [variant |-> "PushPri", reads |-> <<>>],
      [variant |-> "PushAlt", reads |-> <<>>],
      NoVariant,
      [variant |-> "PushC", reads |-> <<"const_1">>],
      [variant |-> "Push", reads |-> <<"addr_1">>],
      [variant |-> "PushS", reads |-> <<"stack_1">>],
      [variant |-> "PopPri", reads |-> <<>>],
      [variant |-> "PopAlt", reads |-> <<>>],
      [variant |-> "Stack", reads |-> <<"const_1">>],
      [variant |-> "Heap", reads |-> <<"const_1">>],
      [variant |-> "Proc", reads |-> <<>>],
      NoVariant,
      [variant |-> "Retn", reads |-> <<>>],
      [variant |-> "Call", reads |-> <<"func_1">>],
      NoVariant,
      [variant |-> "Jump", reads |-> <<"jump_1">>],
      NoVariant,
      [variant |-> "Jzer", reads |-> <<"jump_1">>],
      [variant |-> "Jnz", reads |-> <<"jump_1">>],
      [variant |-> "Jeq", reads |-> <<"jump_1">>],
      [variant |-> "Jneq", reads |-> <<"jump_1">>],
      NoVariant,
      NoVariant,
      NoVariant,
      NoVariant,
      [variant |-> "Jsless", reads |-> <<"jump_1">>],
      [variant |-> "Jsleq", reads |-> <<"jump_1">>],
      [variant |-> "Jsgrtr", reads |-> <<"jump_1">>],
      [variant |-> "Jsgeq", reads |-> <<"jump_1">>],
      [variant |-> "Shl", reads |-> <<>>],
      [variant |-> "Shr", reads |-> <<>>],
      [variant |-> "Sshr", reads |-> <<>>],
      [variant |-> "ShlCPri", reads |-> <<"const_1">>],
      [variant |-> "ShlCAlt", reads |-> <<"const_1">>],
      NoVariant,
      NoVariant,
      [variant |-> "Smul", reads |-> <<>>],
      [variant |-> "Sdiv", reads |-> <<>>],
      [variant |-> "SdivAlt", reads |-> <<>>],
      NoVariant,
      NoVariant,
      NoVariant,
      [variant |-> "Add", reads |-> <<>>],
      [variant |-> "Sub", reads |-> <<>>],
      [variant |-> "SubAlt", reads |-> <<>>],
      [variant |-> "And", reads |-> <<>>],
      [variant |-> "Or", reads |-> <<>>],
      [variant |-> "Xor", reads |-> <<>>],
      [variant |-> "Not", reads |-> <<>>],
      [variant |-> "Neg", reads |-> <<>>],
      [variant |-> "Invert", reads |-> <<>>],
      [variant |-> "AddC", reads |-> <<"const_1">>],
      [variant |-> "SmulC", reads |-> <<"const_1">>],
      [variant |-> "ZeroPri", reads |-> <<>>],
      [variant |-> "ZeroAlt", reads |-> <<>>],
      [variant |-> "Zero", reads |-> <<"addr_1">>],
      [variant |-> "ZeroS", reads |-> <<"stack_1">>],
      NoVariant,
      NoVariant,
      [variant |-> "Eq", reads |-> <<>>],
      [variant |-> "Neq", reads |-> <<>>],
      NoVariant,
      NoVariant,
      NoVariant,
      NoVariant,
      [variant |-> "Sless", reads |-> <<>>],
      [variant |-> "Sleq", reads |-> <<>>],
      [variant |-> "Sgrtr", reads |-> <<>>],
      [variant |-> "Sgeq", reads |-> <<>>],
      [variant |-> "EqCPri", reads |-> <<"const_1">>],
      [variant |-> "EqCAlt", reads |-> <<"const_1">>],
      [variant |-> "IncPri", reads |-> <<>>],
      [variant |-> "IncAlt", reads |-> <<>>],
      [variant |-> "Inc", reads |-> <<"addr_1">>],
      [variant |-> "IncS", reads |-> <<"stack_1">>],
      [variant |-> "IncI", reads |-> <<>>],
      [variant |-> "DecPri", reads |-> <<>>],
      [variant |-> "DecAlt", reads |-> <<>>],
      [variant |-> "Dec", reads |-> <<"addr_1">>],
      [variant |-> "DecS", reads |-> <<"stack_1">>],
      [variant |-> "DecI", reads |-> <<>>],
      [variant |-> "Movs", reads |-> <<"const_1">>],
      NoVariant,
      [variant |-> "Fill", reads |-> <<"const_1">>],
      [variant |-> "Halt", reads |-> <<"const_1">>],
      [variant |-> "Bounds", reads |-> <<"const_1">>],
      NoVariant,
      [variant |-> "SysreqC", reads |-> <<"native_1">>],
      NoVariant,
      NoVariant,
      NoVariant,
      NoVariant,
      NoVariant,
      [variant |-> "Switch", reads |-> <<"jump_1">>],
      [variant |-> "Casetbl", reads |-> <<"const_1", "jump_1">>],
      [variant |-> "SwapPri", reads |-> <<>>],
      [variant |-> "SwapAlt", reads |-> <<>>],
      [variant |-> "PushAdr", reads |-> <<"stack_1">>],
      [variant |-> "Nop", reads |-> <<>>],
      [variant |-> "SysreqN", reads |-> <<"native", "n_args">>],
      NoVariant,
      [variant |-> "Break", reads |-> <<>>],
      [variant |-> "Push2C", reads |-> <<"const_1", "const_2">>],
      [variant |-> "Push2", reads |-> <<"addr_1", "addr_2">>],
      [variant |-> "Push2S", reads |-> <<"stack_1", "stack_2">>],
      [variant |-> "Push2Adr", reads |-> <<"stack_1", "stack_2">>],
      [variant |-> "Push3C", reads |-> <<"const_1", "const_2", "const_3">>],
      [variant |-> "Push3", reads |-> <<"addr_1", "addr_2", "addr_3">>],
      [variant |-> "Push3S", reads |-> <<"stack_1", "stack_2", "stack_3">>],
      [variant |-> "Push3Adr", reads |-> <<"stack_1", "stack_2", "stack_3">>],
      [variant |-> "Push4C", reads |-> <<"const_1", "const_2", "const_3", "const_4">>],
      [variant |-> "Push4", reads |-> <<"addr_1", "addr_2", "addr_3", "addr_4">>],
      [variant |-> "Push4S", reads |-> <<"stack_1", "stack_2", "stack_3", "stack_4">>],
      [variant |-> "Push4Adr", reads |-> <<"stack_1", "stack_2", "stack_3", "stack_4">>],
      [variant |-> "Push5C", reads |-> <<"const_1", "const_2", "const_3", "const_4", "const_5">>],
      [variant |-> "Push5", reads |-> <<"addr_1", "addr_2", "addr_3", "addr_4", "addr_5">>],
      [variant |-> "Push5S", reads |-> <<"stack_1", "stack_2", "stack_3", "stack_4", "stack_5">>],
      [variant |-> "Push5Adr", reads |-> <<"stack_1", "stack_2", "stack_3", "stack_4", "stack_5">>],
      [variant |-> "LoadBoth", reads |-> <<"addr_1", "addr_2">>],
      [variant |-> "LoadSBoth", reads |-> <<"stack_1", "stack_2">>],
      [variant |-> "Const", reads |-> <<"addr_1", "const_1">>],
      [variant |-> "ConstS", reads |-> <<"stack_1", "const_1">>],
      NoVariant,
      NoVariant,
      [variant |-> "TrackerPushC", reads |-> <<"const_1">>],
      [variant |-> "TrackerPopSetheap", reads |-> <<>>],
      [variant |-> "Genarray", reads |-> <<"const_1">>],
      [variant |-> "GenarrayZ", reads |-> <<"const_1">>],
      [variant |-> "StradjustPri", reads |-> <<>>],
      NoVariant,
      [variant |-> "Endproc", reads |-> <<>>],
      NoVariant,
      NoVariant,
      [variant |-> "InitarrayPri", reads |-> <<"addr_1", "const_1", "const_2", "const_3", "const_4">>],
      [variant |-> "InitarrayAlt", reads |-> <<"addr_1", "const_1", "const_2", "const_3", "const_4">>],
      [variant |-> "HeapSave", reads |-> <<>>],
      [variant |-> "HeapRestore", reads |-> <<>>],
      NoVariant,
      [variant |-> "Fabs", reads |-> <<>>],
      [variant |-> "Float", reads |-> <<>>],
      [variant |-> "Floatadd", reads |-> <<>>],
      [variant |-> "Floatsub", reads |-> <<>>],
      [variant |-> "Floatmul", reads |-> <<>>],
      [variant |-> "Floatdiv", reads |-> <<>>],
      [variant |-> "RndToNearest", reads |-> <<>>],
      [variant |-> "RndToFloor", reads |-> <<>>],
      [variant |-> "RndToCeil", reads |-> <<>>],
      [variant |-> "RndToZero", reads |-> <<>>],
      [variant |-> "Floatcmp", reads |-> <<>>],
      [variant |-> "FloatGt", reads |-> <<>>],
      [variant |-> "FloatGe", reads |-> <<>>],
      [variant |-> "FloatLt", reads |-> <<>>],
      [variant |-> "FloatLe", reads |-> <<>>],
      [variant |-> "FloatNe", reads |-> <<>>],
      [variant |-> "FloatEq", reads |-> <<>>],
      [variant |-> "FloatNot", reads |-> <<>>]>>

\* The Range of a sequence.
Range(s) == {s[k] : k \in 1..Len(s)}

\* The index of the first occurrence of x in the sequence s.
IndexOf(s, x) == CHOOSE k \in 1..Len(s) : s[k] = x /\ \A j \in 1..(k - 1) : s[j] # x

\* Instruction::write_to(&self, w) into a Vec<u8>: the tag, then the fields
\* of the arm, each through write_cell.
InstructionWriteTo(native, i) ==
    \* match self
    LET arm == WriteToArms[i.variant]
    IN  WriteCell(native, arm.tag)
            \o ConcatRange([k \in 1..Len(arm.writes) |->
                               WriteCell(native, i.fields[arm.writes[k]])],
                           1, Len(arm.writes))

RECURSIVE ReadOperands(_, _, _, _, _, _)
\* The `let field = read_cell(r)?;` lines of an arm, from the k-th on:
\* [result, position], result an Err or Ok of the cells read.
ReadOperands(native, bytes, pos, reads, k, acc) ==
    IF k > Len(reads)
    THEN [result |-> Ok(acc), position |-> pos]
    ELSE LET c == ReadCell(native, bytes, pos)
         IN  IF c.tag = "Err"
             THEN [result |-> c, position |-> "unspecified"]
             ELSE ReadOperands(native, bytes, c.val.pos, reads, k + 1,
                               Append(acc, c.val.cell))

\* IoError::new(IoErrorKind::InvalidData, format!("invalid opcode: {opcode:?}"))
InvalidOpcode(opcode) ==
    [kind |-> "Io", what |-> "InvalidData", opcode |-> opcode]

\* The variant built from the cells an arm read: the field read k-th gets
\* the k-th cell.
Built(arm, cells) ==
    [variant |-> arm.variant,
     fields |-> [f \in Range(arm.reads) |-> cells[IndexOf(arm.reads, f)]]]

\* As InstructionReadFrom, but an arm hands the cells it read to the fields
\* in the opposite order.
InstructionReadFromReversed(native, bytes, pos) ==
    LET tag == ReadCell(native, bytes, pos)
    IN  IF tag.tag = "Err"
        THEN [result |-> tag, position |-> "unspecified"]
        ELSE LET arm == IF tag.val.cell \in 0..(Len(ReadFromArms) - 1)
                        THEN ReadFromArms[tag.val.cell + 1]
                        ELSE NoVariant
                 ops == ReadOperands(native, bytes, tag.val.pos,
                                     arm.reads, 1, <<>>)
             IN  IF arm = NoVariant
                 THEN [result |-> Err(InvalidOpcode(tag.val.cell)),
                       position |-> tag.val.pos]
                 ELSE IF ops.result.tag = "Err"
                 THEN ops
                 ELSE [result |-> Ok(Built(arm, Reverse(ops.result.val))),
                       position |-> ops.position]

\* Instruction::read_from(r) on a cursor at pos of bytes: [result, position],
\* the position being the cursor's after the call.
InstructionReadFrom(native, bytes, pos) ==
    \* match read_cell(r)?
    LET tag == ReadCell(native, bytes, pos)
    IN  IF tag.tag = "Err"
        THEN [result |-> tag, position |-> "unspecified"]
        ELSE LET arm == IF tag.val.cell \in 0..(Len(ReadFromArms) - 1)
                        THEN ReadFromArms[tag.val.cell + 1]
                        ELSE NoVariant
                 ops == ReadOperands(native, bytes, tag.val.pos,
                                     arm.reads, 1, <<>>)
             IN  IF arm = NoVariant
                 \* opcode => Err(...)
                 THEN [result |-> Err(InvalidOpcode(tag.val.cell)),
                       position |-> tag.val.pos]
                 ELSE IF ops.result.tag = "Err"
                 THEN ops
                 ELSE [result |-> Ok(Built(arm, ops.result.val)),
                       position |-> ops.position]

(* One instruction is written to a code vector, the vector is stored as    *)
(* the section ".code" of a container (src/examples/code.rs), and the      *)
(* vector is read back.                                                    *)

\* Cells that fields hold: both differ from their byte-wise reverse, one is
\* negative.
CellValues == {-2, 258}

Instructions ==
    UNION {{[variant |-> v, fields |-> fs] :
                fs \in [Range(InstructionFields[v]) -> CellValues]} :
           v \in DOMAIN InstructionFields}

\* The cells of streams that no write_to produced: every tag from one
\* below the first to one above the last, alone or before one cell.
ForgedStreams ==
    {<<t>> \o rest : t \in (-1)..Len(ReadFromArms), rest \in {<<>>, <<258>>}}

\* What follows the instruction in the vector: nothing, or Instruction::Retn.
Followers == {<<>>, <<[variant |-> "Retn", fields |-> <<>>]>>}

\* The name of the section that holds the code (".code" in the example).
CodeName == <<98>>

InitCode ==
    /\ IdleTable
    /\ IdleSink
    /\ IdleWriter
    /\ pc = "code"
    /\ slice = <<>>
    /\ newResult = None
    /\ kind = "none"
    /\ smx = <<>>
    /\ sections = <<>>
    /\ order = "Little"
    /\ level = "NoCompression"
    /\ file = <<>>
    /\ readResult = None
    /\ host \in Orders
    /\ insn = None
    /\ code = <<>>
    /\ decoded = None
    /\ reader = None

\* let mut code = Vec::new(); instruction.write_to(&mut code)?; ...
EncodeInsn ==
    /\ pc = "code"
    /\ \E i \in Instructions, next \in Followers :
           /\ insn' = Some(i)
           /\ code' = InstructionWriteTo(host, i)
                        \o ConcatRange([k \in 1..Len(next) |->
                                           InstructionWriteTo(host, next[k])],
                                       1, Len(next))
    /\ pc' = "coded"
    /\ UNCHANGED <<host, decoded>>
    /\ UNCHANGED <<slice, newResult, kind, smx, sections, order, level, file,
                   readResult>>
    /\ UNCHANGED <<tableVars, sinkVars, writer, reader>>

\* A code vector that came from elsewhere (a section of a file).
ForgeCode ==
    /\ pc = "code"
    /\ \E cells \in ForgedStreams :
           code' = ConcatRange([k \in 1..Len(cells) |->
                                   WriteCell(host, cells[k])], 1, Len(cells))
    /\ pc' = "forged"
    /\ UNCHANGED <<host, insn, decoded>>
    /\ UNCHANGED <<slice, newResult, kind, smx, sections, order, level, file,
                   readResult>>
    /\ UNCHANGED <<tableVars, sinkVars, writer, reader>>

\* smx.sections.insert(name, code); smx.write_to::<E>(&mut file, level)
StoreCode ==
    /\ pc = "coded"
    /\ \E E \in Orders :
           /\ order' = E
           /\ sections' = <<<<CodeName, code>>>>
           /\ LET r == WriteToWriter(E, level, sections', None)
              IN  /\ writer' = r
                  /\ file' = WriterHolds(r)
    /\ pc' = "stored"
    /\ kind' = "HashMap"
    /\ smx' = sections'
    /\ UNCHANGED codeVars
    /\ UNCHANGED <<slice, newResult, level, readResult>>
    /\ UNCHANGED <<tableVars, sinkVars, reader>>

\* Instruction::read_from(&mut Cursor::new(&code))
DecodeInsn ==
    /\ pc \in {"coded", "forged", "stored"}
    /\ decoded' = Some(InstructionReadFrom(host, code, 0))
    /\ pc' = "decoded"
    /\ UNCHANGED <<host, insn, code>>
    /\ UNCHANGED <<slice, newResult, kind, smx, sections, order, level, file,
                   readResult>>
    /\ UNCHANGED <<tableVars, sinkVars, writer, reader>>

NextCode == EncodeInsn \/ ForgeCode \/ StoreCode \/ DecodeInsn

SpecCode == InitCode /\ [][NextCode]_vars

-----------------------------------------------------------------------------
(* MaybeUncompressedReader under a caller that seeks and reads at will.    *)
(* The reader is built over a written file as read_no_magic_from builds    *)
(* it; the caller keeps the position its seeks and reads put it at.        *)

\* What read_no_magic_from hands to MaybeUncompressedReader for a file
\* whose header, string table and payload it has read.
MurContext(E, bytes) ==
    LET data_offset == U32From(E, SubSeq(bytes, 21, 24))
        gz == bytes[7] = 1
    IN  [file |-> bytes, gz |-> gz, data_offset |-> data_offset,
         decomp |-> IF gz
                    THEN DecompressToVecZlib(
                             Avail(bytes, data_offset, Len(bytes))).val
                    ELSE <<>>]

ReaderCtx == MurContext(order, file)

\* The sources of the files the reader is built over.
ReaderSlices ==
    {<< <<<<98>>, <<4, 20>>>> >>,
     << <<<<97, 98>>, <<7, 7, 7, 7, 7, 7, 7, 7>>>>, <<<<98>>, <<4, 20>>>> >>}

\* The positions the caller seeks to: the start, the records, around the
\* payload offset, and the end of the payload.
SeekTargets(ctx) ==
    {0, SMX_HEADER_LEN,
     ctx.data_offset - 2, ctx.data_offset - 1, ctx.data_offset,
     ctx.data_offset + 1,
     ctx.data_offset + (IF ctx.gz THEN Len(ctx.decomp)
                        ELSE Len(ctx.file) - ctx.data_offset)}

\* The lengths of the caller's buffers.
ReadSizes == {1, 2, 4}

InitReader ==
    /\ IdleTable
    /\ IdleSink
    /\ IdleWriter
    /\ pc = "reader"
    /\ slice \in ReaderSlices
    /\ newResult = None
    /\ kind = "BorrowedMap"
    /\ smx = <<>>
    /\ sections = slice
    /\ order \in Orders
    /\ level \in {"NoCompression", "DefaultLevel"}
    /\ file = WriteTo(order, level, sections)
    /\ readResult = None
    /\ host = "Little"
    /\ insn = None
    /\ code = <<>>
    /\ decoded = None
    /\ reader = [rd |-> MurNew(ReaderCtx), at |-> None,
                 last |-> [op |-> "new"]]

\* r.seek(SeekFrom::Start(p))
ReaderSeekStart ==
    /\ pc = "reader"
    /\ \E p \in SeekTargets(ReaderCtx) :
           reader' = [rd |-> MurSeekStart(ReaderCtx, reader.rd, p),
                      at |-> Some(p),
                      last |-> [op |-> "seek", pos |-> p]]
    /\ UNCHANGED <<pc, slice, newResult, kind, smx, sections, order, level,
                   file, readResult>>
    /\ UNCHANGED <<tableVars, sinkVars, writer, codeVars>>

\* r.seek(SeekFrom::End(0))
ReaderSeekEnd ==
    /\ pc = "reader"
    /\ LET r == MurSeekEnd(ReaderCtx, reader.rd)
       IN  reader' = [rd |-> r.rd, at |-> None,
                      last |-> [op |-> "seek_end", pos |-> r.pos]]
    /\ UNCHANGED <<pc, slice, newResult, kind, smx, sections, order, level,
                   file, readResult>>
    /\ UNCHANGED <<tableVars, sinkVars, writer, codeVars>>

\* r.read(&mut buf) with a buffer of n bytes
ReaderRead ==
    /\ pc = "reader"
    /\ \E n \in ReadSizes :
           LET r == MurRead(ReaderCtx, reader.rd, n)
           IN  reader' = [rd |-> r.rd,
                          at |-> IF reader.at.some
                                 THEN Some(reader.at.val + Len(r.got))
                                 ELSE None,
                          last |-> [op |-> "read", from |-> reader.at,
                                    n |-> n, ok |-> TRUE, got |-> r.got]]
    /\ UNCHANGED <<pc, slice, newResult, kind, smx, sections, order, level,
                   file, readResult>>
    /\ UNCHANGED <<tableVars, sinkVars, writer, codeVars>>

\* r.read_exact(&mut buf) with a buffer of n bytes
ReaderReadExact ==
    /\ pc = "reader"
    /\ \E n \in ReadSizes :
           LET r == MurReadExact(ReaderCtx, reader.rd, n, <<>>)
           IN  reader' = [rd |-> r.rd,
                          at |-> IF reader.at.some /\ r.ok
                                 THEN Some(reader.at.val + n)
                                 ELSE None,
                          last |-> [op |-> "read_exact", from |-> reader.at,
                                    n |-> n, ok |-> r.ok,
                                    got |-> IF r.ok THEN r.bytes ELSE <<>>]]
    /\ UNCHANGED <<pc, slice, newResult, kind, smx, sections, order, level,
                   file, readResult>>
    /\ UNCHANGED <<tableVars, sinkVars, writer, codeVars>>

NextReader ==
    ReaderSeekStart \/ ReaderSeekEnd \/ ReaderRead \/ ReaderReadExact

SpecReader == InitReader /\ [][NextReader]_vars

-----------------------------------------------------------------------------
(* Properties of BorrowedMap::new. *)

KeysDistinct(inner) ==
    \A i, j \in 1..Len(inner) : i # j => inner[i][1] # inner[j][1]

\* C2: BorrowedMap::new(slice) returns Ok, with a map over the same slice,
\* if and only if no two elements at distinct indices have equal keys.
C2_NewOkIffKeysDistinct ==
    newResult.some =>
        /\ newResult.val.ok <=> KeysDistinct(slice)
        /\ newResult.val.ok => newResult.val.map = slice

\* C3: an Err((i, j)) of BorrowedMap::new names two different indices of the
\* slice whose keys are equal, and the first such pair in scan order.
C3_ErrIsFirstCollidingPair ==
    (newResult.some /\ ~newResult.val.ok) =>
        LET i == newResult.val.err[1]
            j == newResult.val.err[2]
            n == Len(slice)
        IN  /\ i \in 0..(n - 1) /\ j \in 0..(n - 1)
            /\ i # j
            /\ slice[i + 1][1] = slice[j + 1][1]
            /\ \A p, q \in 0..(n - 1) :
                (p # q /\ slice[p + 1][1] = slice[q + 1][1]) =>
                    (i < p \/ (i = p /\ j <= q))

-----------------------------------------------------------------------------
(* Properties of the bytes write_to produces. *)

Written == pc \in {"written", "read"}

\* The u32 the file holds at an offset, in the byte order it was written in.
Field32(offset) == U32From(order, SubSeq(file, offset + 1, offset + 4))

SectionName(i) == sections[i][1]
SectionBytes(i) == sections[i][2]

\* The payload before compression: the data of the sections, in order.
AllData == ConcatRange([i \in 1..Len(sections) |-> SectionBytes(i)],
                       1, Len(sections))

\* The payload as stored.
StoredPayload ==
    IF level = "NoCompression" THEN AllData
    ELSE CompressToVecZlib(AllData, level)

\* The sum of the lengths of the sections 1..k.
DataLenUpTo(k) ==
    SumRange([i \in 1..Len(sections) |-> Len(SectionBytes(i))], 1, k)

\* C8: the string-table offset field is 24 + 12 * N, the payload offset field
\* is that plus the length of the string table built from the names, and the
\* file is the 24-byte header, N records of 12 bytes, the string table and
\* the payload, in that order.
C8_OffsetsAndOrder ==
    Written =>
        LET n == Len(sections)
            strings == FirstCopies([i \in 1..n |-> SectionName(i)])
            sto == Field32(16)
            po == Field32(20)
        IN  /\ sto = 24 + 12 * n
            /\ po = sto + Len(strings)
            /\ SubSeq(file, 1, 4) = U32Bytes(order, FILE_MAGIC)
            /\ SubSeq(file, sto + 1, po) = strings
            /\ SubSeq(file, po + 1, Len(file)) = StoredPayload
            /\ Len(file) = 24 + 12 * n + Len(strings) + Len(StoredPayload)

\* Two sections with different names written with compression.
C8_Witness ==
    /\ pc = "written"
    /\ Len(sections) = 2
    /\ SectionName(1) # SectionName(2)
    /\ level = "UberCompression"
    /\ Field32(16) = 48
    /\ Field32(20) > 48

\* C9: the disk-size field is the payload offset plus the length of the
\* payload as stored, which is the number of bytes written; the image-size
\* field is the payload offset plus the sum of the section lengths; without
\* compression the two are equal.
C9_DiskAndImageSize ==
    Written =>
        LET po == Field32(20)
            disk == Field32(7)
            image == Field32(11)
        IN  /\ disk = po + Len(StoredPayload)
            /\ disk = Len(file)
            /\ image = po + DataLenUpTo(Len(sections))
            /\ level = "NoCompression" => disk = image

\* A compressed file whose stored payload is shorter than its data.
C9_Witness ==
    /\ pc = "written"
    /\ level = "DefaultLevel"
    /\ Len(sections) = 2
    /\ Field32(7) < Field32(11)
    /\ Field32(7) = Len(file)

\* C10: record i holds the offset in the string table at which the section's
\* name is stored, the data offset payload_offset + (lengths of the sections
\* before it) and the section's length; so the data ranges are contiguous
\* from payload_offset to image_size.
C10_SectionInfoRecords ==
    Written =>
        LET n == Len(sections)
            sto == Field32(16)
            po == Field32(20)
            image == Field32(11)
            strings == SubSeq(file, sto + 1, po)
            name_offset(i) == Field32(24 + 12 * (i - 1))
            data_offset(i) == Field32(24 + 12 * (i - 1) + 4)
            length(i) == Field32(24 + 12 * (i - 1) + 8)
        IN  /\ \A i \in 1..n :
                LET o == name_offset(i)
                    k == Len(SectionName(i))
                IN  /\ o = 0 \/ strings[o] = 0
                    /\ SubSeq(strings, o + 1, o + k) = SectionName(i)
                    /\ o + k < Len(strings)
                    /\ strings[o + k + 1] = 0
                    /\ data_offset(i) = po + DataLenUpTo(i - 1)
                    /\ length(i) = Len(SectionBytes(i))
            /\ n > 0 => data_offset(1) = po
            /\ \A i \in 1..(n - 1) :
                data_offset(i) + length(i) = data_offset(i + 1)
            /\ IF n = 0 THEN image = po
               ELSE data_offset(n) + length(n) = image

\* Two sections with data: the second starts where the first ends.
C10_Witness ==
    /\ pc = "written"
    /\ Len(sections) = 2
    /\ level = "DefaultLevel"
    /\ Len(SectionBytes(1)) = 8
    /\ Len(SectionBytes(2)) = 2
    /\ Field32(24 + 12 + 4) = Field32(20) + 8
    /\ Field32(24 + 4) = Field32(20)

\* C1: for a container with no duplicate names (any number of sections),
\* every byte order and every compression level, Smx::read_from of the bytes
\* of Smx::write_to returns a container equal to the original and the byte
\* order that was used to write.
C1_RoundTrip ==
    (pc = "read" /\ kind = "HashMap") =>
        /\ readResult.val.tag = "Ok"
        /\ SameMap(readResult.val.val.smx, smx)
        /\ readResult.val.val.endianness = order

\* The round trip of the containers whose section count fits the header's
\* one-byte field.
RoundTripBelowU8Range ==
    (pc = "read" /\ kind = "HashMap" /\ Len(smx) < U8Range) =>
        /\ readResult.val.tag = "Ok"
        /\ SameMap(readResult.val.val.smx, smx)
        /\ readResult.val.val.endianness = order

-----------------------------------------------------------------------------
(* Compression and the parts of the file. *)

\* C11: for the same sections in the same order and the same byte order, the
\* file written at the state's level and the file written with NoCompression
\* agree on every byte before the payload except the compression flag byte
\* (offset 6) and the disk-size field (offsets 7..10); the flag is 0 exactly
\* for NoCompression and 1 for the other levels; the payload is the
\* sections' data verbatim when the flag is 0 and otherwise the zlib
\* compression of the whole concatenated data.
C11_CompressionPayloadOnly ==
    Written =>
        \A plain \in {WriteTo(order, "NoCompression", sections)} :
        \A front \in {Field32(20)} :
            /\ front <= Len(file) /\ front <= Len(plain)
            /\ SubSeq(file, 1, 6) = SubSeq(plain, 1, 6)
            /\ SubSeq(file, 12, front) = SubSeq(plain, 12, front)
            /\ plain[7] = 0
            /\ file[7] \in {0, 1}
            /\ file[7] = 0 <=> level = "NoCompression"
            /\ SubSeq(plain, front + 1, Len(plain)) = AllData
            /\ SubSeq(file, front + 1, Len(file)) =
                  IF file[7] = 0 THEN AllData
                  ELSE CompressToVecZlib(AllData, level)

\* A file of two sections written with UberCompression whose payload is not
\* the sections' data.
C11_Witness ==
    /\ pc = "written"
    /\ level = "UberCompression"
    /\ Len(sections) = 2
    /\ Len(AllData) = 10
    /\ file[7] = 1
    /\ SubSeq(file, Field32(20) + 1, Len(file)) # AllData
    /\ SubSeq(file, Field32(20) + 1, Len(file)) =
          CompressToVecZlib(AllData, "UberCompression")

-----------------------------------------------------------------------------
(* Properties of read_from, checked on the files of SpecRead. *)

Done == pc = "done"

\* What read_from returned.
Res == readResult.val

LittleMagic == <<70, 70, 80, 83>>
BigMagic == <<83, 80, 70, 70>>

\* The byte order the first four bytes of the file stand for.
MagicOrder ==
    IF Len(file) < 4 THEN "neither"
    ELSE IF SubSeq(file, 1, 4) = LittleMagic THEN "Little"
    ELSE IF SubSeq(file, 1, 4) = BigMagic THEN "Big"
    ELSE "neither"

\* The 16-bit and 32-bit values the file holds at an offset, decoded in the
\* byte order of its magic number.
Held16(off) ==
    IF MagicOrder = "Little" THEN file[off + 1] + 256 * file[off + 2]
    ELSE 256 * file[off + 1] + file[off + 2]
Held32(off) ==
    IF MagicOrder = "Little"
    THEN file[off + 1] + 256 * (file[off + 2]
            + 256 * (file[off + 3] + 256 * file[off + 4]))
    ELSE file[off + 4] + 256 * (file[off + 3]
            + 256 * (file[off + 2] + 256 * file[off + 1]))

IsErr(k) == Res.tag = "Err" /\ Res.err.kind = k

\* C12: a file that starts with the little-endian encoding of 0x53504646 is
\* read in Little order (its version is decoded little-endian, and a
\* success returns Little), one that starts with the big-endian encoding is
\* read in Big order, and any other four bytes make the read fail with Magic
\* carrying those four bytes, the sink having received no call; the two
\* encodings differ.
C12_EndiannessInference ==
    (Done /\ Len(file) >= 4) =>
        /\ LittleMagic # BigMagic
        /\ MagicOrder = "neither" =>
              /\ Res = Err([kind |-> "Magic", bytes |-> SubSeq(file, 1, 4)])
              /\ sinkCalls = <<>>
        /\ MagicOrder # "neither" =>
              /\ ~IsErr("Magic")
              /\ Res.tag = "Ok" => Res.val = MagicOrder
              /\ (Len(file) >= 6 /\ Held16(4) # 258) =>
                    Res = Err([kind |-> "Version", version |-> Held16(4)])
              /\ (Len(file) >= 6 /\ Held16(4) = 258) => ~IsErr("Version")

\* A file written in Little order whose magic number was replaced by the
\* big-endian encoding: it is read in Big order, which the version shows.
C12_Witness ==
    /\ Done
    /\ order = "Little"
    /\ Len(file) >= SMX_HEADER_LEN
    /\ SubSeq(file, 1, 4) = BigMagic
    /\ SubSeq(file, 5, 6) = <<2, 1>>
    /\ Res = Err([kind |-> "Version", version |-> 513])

\* C13: after a valid magic number, a version other than 0x0102 (in the
\* inferred byte order) makes the read fail with Version carrying it,
\* whatever the compression byte and the rest of the header hold; with the
\* version 0x0102, a compression byte other than 0 and 1 makes it fail with
\* Compression carrying the byte, whatever the rest of the header holds; the
\* sink has received no call in either case.
C13_VersionThenCompression ==
    (Done /\ MagicOrder # "neither" /\ Len(file) >= 6) =>
        /\ Held16(4) # 258 =>
              /\ Res = Err([kind |-> "Version", version |-> Held16(4)])
              /\ sinkCalls = <<>>
        /\ (Held16(4) = 258 /\ Len(file) >= 7 /\ file[7] \notin {0, 1}) =>
              /\ Res = Err([kind |-> "Compression", byte |-> file[7]])
              /\ sinkCalls = <<>>

\* A file whose version and compression byte are both invalid: Version is
\* reported.
C13_Witness ==
    /\ Done
    /\ MagicOrder = order
    /\ Len(file) >= SMX_HEADER_LEN
    /\ Held16(4) = 513
    /\ file[7] = 2
    /\ Res = Err([kind |-> "Version", version |-> 513])

\* The header is complete, its magic number, version and compression byte
\* are accepted, and the string table lies within the file.
StringTableRead ==
    /\ MagicOrder # "neither"
    /\ Len(file) >= SMX_HEADER_LEN
    /\ Held16(4) = 258
    /\ file[7] \in {0, 1}
    /\ Held32(16) <= Held32(20)
    /\ Held32(16) = Held32(20) \/ Held32(20) <= Len(file)

\* The bytes of the file from the payload offset on.
StoredFrom(pay) == SubSeq(file, pay + 1, Len(file))

\* C14: for a file with compression flag 1 whose string table was read,
\* when the number of bytes from the payload offset to the end of the file
\* differs from disk_size - payload_offset (also when disk_size is the
\* smaller), the read fails with NotAtDiskSize carrying the number of bytes
\* read, the sink having received no call.
C14_DiskSizeCheck ==
    (Done /\ StringTableRead /\ file[7] = 1
          /\ Len(StoredFrom(Held32(20))) # Held32(7) - Held32(20)) =>
        /\ Res = Err([kind |-> "NotAtDiskSize",
                      size |-> Len(StoredFrom(Held32(20)))])
        /\ sinkCalls = <<>>

\* The disk-size check in a build whose subtraction wraps.
DiskSizeCheckWrapping ==
    (Done /\ ~checks /\ StringTableRead /\ file[7] = 1
          /\ Len(StoredFrom(Held32(20))) # Held32(7) - Held32(20)) =>
        /\ Res = Err([kind |-> "NotAtDiskSize",
                      size |-> Len(StoredFrom(Held32(20)))])
        /\ sinkCalls = <<>>

\* The length of the file as the reader sees it: the stream's length, or for
\* a compressed file the payload offset plus the length of the decompressed
\* payload.
LogicalLen ==
    IF file[7] = 0 THEN Len(file)
    ELSE Held32(20) + Len(DecompressToVecZlib(StoredFrom(Held32(20))).val)

\* The file as write_to produced it.
Original == WriteTo(order, level, sections)

\* C15: a read that got past the image-size check (it returned Ok, or from
\* the loop over the records) read a file whose image-size field equals its
\* logical length; a read that returned NotAtImageSize carries the field as
\* declared and the logical length as actual, the two differ and the sink
\* has received no call; a written file whose image-size field was
\* decremented yields that error.
C15_ImageSizeCheck ==
    Done =>
        /\ (Res.tag = "Ok" \/ stopped.val.stage \in {"record", "end"}) =>
              Held32(11) = LogicalLen
        /\ IsErr("NotAtImageSize") =>
              /\ Res.err.declared = Held32(11)
              /\ Res.err.actual = LogicalLen
              /\ Held32(11) # LogicalLen
              /\ sinkCalls = <<>>
        /\ \A orig \in {Original} :
              LET size == U32From(order, SubSeq(orig, 12, 15))
              IN  file = SetBytes(orig, 11, U32Bytes(order, size - 1)) =>
                    Res = Err([kind |-> "NotAtImageSize",
                               declared |-> size - 1,
                               actual |-> size])

\* A compressed file of two sections whose image-size field was decremented.
C15_Witness ==
    /\ Done
    /\ level = "DefaultLevel"
    /\ Len(sections) = 2
    /\ file # Original
    /\ IsErr("NotAtImageSize")
    /\ Res.err.declared + 1 = Res.err.actual
    /\ Res.err.actual = Held32(20) + 10
    /\ StoredFrom(Held32(20)) # AllData

\* C20: whatever the file holds, read_from returns: a success or an
\* SmxError value, never an abort of the process.
C20_NeverAborts ==
    Done => Res.tag \in {"Ok", "Err"}

\* The reads of a build whose subtractions wrap return.
WrappingBuildReturns ==
    (Done /\ ~checks) => Res.tag \in {"Ok", "Err"}

-----------------------------------------------------------------------------
(* The loop over the records, on the files of SpecRead. *)

\* The read got as far as the loop over the records.
PastHeader == stopped.val.stage \in {"record", "end"}

\* The logical image of the file: the file itself, or for a compressed file
\* its bytes before the payload offset followed by the decompressed payload.
Image ==
    IF file[7] = 0 THEN file
    ELSE SubSeq(file, 1, Held32(20))
            \o DecompressToVecZlib(StoredFrom(Held32(20))).val

\* The bytes [off, off + n) of a sequence, as far as it has them.
Bytes(img, off, n) ==
    SubSeq(img, off + 1, IF off + n <= Len(img) THEN off + n ELSE Len(img))

\* Field j (0: name offset, 1: data offset, 2: length) of record k, read
\* from the slot at 24 + 12 * k of the image in the file's byte order.
RecHeld(img, k, j) ==
    LET off == SMX_HEADER_LEN + SMX_SECTION_INFO_LEN * k + 4 * j
        b == SubSeq(img, off + 1, off + 4)
    IN  IF MagicOrder = "Little"
        THEN b[1] + 256 * (b[2] + 256 * (b[3] + 256 * b[4]))
        ELSE b[4] + 256 * (b[3] + 256 * (b[2] + 256 * b[1]))

TableSize == Held32(20) - Held32(16)
StringTable == SubSeq(file, Held32(16) + 1, Held32(20))

\* The name the string table holds at offset v < TableSize: the bytes up to
\* the next null byte, or up to the end of the table.
NameAt(v) ==
    LET stops == {i \in (v + 1)..TableSize : StringTable[i] = 0}
        end == IF stops = {} THEN TableSize + 1
               ELSE CHOOSE i \in stops : \A j \in stops : i <= j
    IN  SubSeq(StringTable, v + 1, end - 1)

\* What the error SectionNameOffset carries, and what a written file whose
\* record k had its name offset replaced by a value beyond the string table
\* is answered with.
NameOffsetErrorCarries(img) ==
    /\ IsErr("SectionNameOffset") =>
          /\ stopped.val = AtRecord(Res.err.section)
          /\ Len(sinkCalls) = Res.err.section
          /\ Res.err.name_offset = RecHeld(img, Res.err.section, 0)
          /\ Res.err.string_table_size = TableSize
    /\ \A orig \in {Original} :
       \A k \in 0..(Len(sections) - 1) :
       \A v \in {TableSize, TableSize + 1, 2 ^ 30} :
          (/\ file = SetBytes(orig, SMX_HEADER_LEN + SMX_SECTION_INFO_LEN * k,
                              U32Bytes(order, v))
           /\ \A c \in failing : c >= k) =>
              Res = Err([kind |-> "SectionNameOffset", section |-> k,
                         name_offset |-> v, string_table_size |-> TableSize])

\* C16: the read fails with SectionNameOffset {section = k, name_offset =
\* the value of record k, string_table_size = payload_offset -
\* string_table_offset} exactly when that value is >= the string-table
\* length: the error carries such a value, every record whose section
\* reached the sink has a value below the length, and a written file whose
\* record k was given such a value is answered with exactly that error.
C16_NameOffsetIffBeyondTable ==
    (Done /\ PastHeader) =>
        \A img \in {Image} :
            /\ NameOffsetErrorCarries(img)
            /\ IsErr("SectionNameOffset") =>
                  RecHeld(img, Res.err.section, 0) >= TableSize
            /\ \A k \in 0..(Len(sinkCalls) - 1) :
                  RecHeld(img, k, 0) < TableSize

\* A compressed file of two sections whose record 1 names the offset right
\* after the string table: section 0 reached the sink, then the read failed.
C16_Witness ==
    /\ Done /\ PastHeader
    /\ file[7] = 1
    /\ file # Original
    /\ IsErr("SectionNameOffset")
    /\ Res.err.section = 1
    /\ Res.err.name_offset = 5
    /\ Res.err.string_table_size = 5
    /\ Len(sinkCalls) = 1

\* Call k of the sink carries the name record k resolves to.
CallCarriesName(img, k) ==
    sinkCalls[k + 1].name = NameAt(RecHeld(img, k, 0))

\* Call k of the sink carries the bytes [data offset, data offset + length)
\* of the image, all of them.
CallCarriesData(img, k) ==
    /\ Len(sinkCalls[k + 1].data) = RecHeld(img, k, 2)
    /\ sinkCalls[k + 1].data =
          Bytes(img, RecHeld(img, k, 1), RecHeld(img, k, 2))

\* C17: write_section is called once per record, for the records 0, 1, 2,
\* ... read from the 12-byte slots that follow the 24-byte header, call k
\* carrying the name record k resolves to and the length bytes at its data
\* offset; a successful read makes exactly section_count calls.
C17_SinkCallsFollowRecords ==
    (Done /\ PastHeader) =>
        \A img \in {Image} :
            /\ Len(sinkCalls) <= file[16]
            /\ Res.tag = "Ok" => Len(sinkCalls) = file[16]
            /\ \A k \in 0..(Len(sinkCalls) - 1) :
                  CallCarriesName(img, k) /\ CallCarriesData(img, k)

\* The calls of a read are in the order of the records, carry their names
\* and as many bytes as the record says; they carry the bytes at the
\* record's data offset when the file is not compressed.
SinkCallsFollowRecordsButData ==
    (Done /\ PastHeader) =>
        \A img \in {Image} :
            /\ Len(sinkCalls) <= file[16]
            /\ Res.tag = "Ok" => Len(sinkCalls) = file[16]
            /\ \A k \in 0..(Len(sinkCalls) - 1) :
                  /\ CallCarriesName(img, k)
                  /\ Len(sinkCalls[k + 1].data) = RecHeld(img, k, 2)
                  /\ file[7] = 0 => CallCarriesData(img, k)

\* C18: when write_section fails on record k, the read returns the Writer
\* error carrying the sink's error, and call k is the last call made: a
\* Writer error comes from the first failing call, and no call follows a
\* failing one.
C18_SinkFailureStopsRead ==
    Done =>
        /\ IsErr("Writer") =>
              /\ Res.err.error \in failing
              /\ stopped.val = AtRecord(Res.err.error)
              /\ Len(sinkCalls) = Res.err.error + 1
        /\ \A c \in failing :
              c < Len(sinkCalls) =>
                  /\ Res = Err([kind |-> "Writer", error |-> c])
                  /\ Len(sinkCalls) = c + 1

\* A file of two records read into a sink that fails on the first call.
C18_Witness ==
    /\ Done
    /\ file = Original
    /\ file[16] = 2
    /\ failing = {0, 1}
    /\ Res = Err([kind |-> "Writer", error |-> 0])
    /\ Len(sinkCalls) = 1

\* The sections the sink holds: those of the calls it accepted.
Accepted ==
    IF IsErr("Writer") THEN SubSeq(sinkCalls, 1, Len(sinkCalls) - 1)
    ELSE sinkCalls

\* C19: a read that fails while processing record k leaves in the sink the
\* sections of the records 0..k-1, in order; a read that fails before the
\* loop over the records leaves the sink without any section.
C19_NoRollback ==
    (Done /\ Res.tag = "Err") =>
        /\ PastHeader =>
              \A img \in {Image} :
                  /\ stopped.val.stage = "record"
                  /\ Len(Accepted) = stopped.val.section
                  /\ \A k \in 0..(Len(Accepted) - 1) :
                        /\ Accepted[k + 1].name = NameAt(RecHeld(img, k, 0))
                        /\ Len(Accepted[k + 1].data) = RecHeld(img, k, 2)
        /\ ~PastHeader => sinkCalls = <<>>

\* A read that fails on record 1 for more data than the file has: the
\* section of record 0 stays in the sink.
C19_Witness ==
    /\ Done
    /\ Res = Err(IoEof)
    /\ stopped.val = AtRecord(1)
    /\ Len(Accepted) = 1
    /\ Accepted[1].name = <<97, 98>>
    /\ Len(Accepted[1].data) = 8

-----------------------------------------------------------------------------
(* Containers read back by Smx::read_from, on the files of Spec. *)

\* Two sections of the source have the same name.
HasDuplicateNames ==
    \E i, j \in 1..Len(sections) : i < j /\ SectionName(i) = SectionName(j)

\* The last section of the source that has the name of section i.
LastNamed(i) ==
    CHOOSE j \in i..Len(sections) :
        /\ SectionName(j) = SectionName(i)
        /\ \A k \in (j + 1)..Len(sections) : SectionName(k) # SectionName(i)

\* C21: a file whose records resolve twice to one name (written from a
\* source with duplicate names: the records share the name offset) is read
\* without an error into a container that has exactly one entry per name,
\* holding the data of the last record of that name; the entries of the
\* other names are those of their records.
C21_DuplicateNamesLastWins ==
    (pc = "read" /\ HasDuplicateNames) =>
        /\ readResult.val.tag = "Ok"
        /\ \A map \in {readResult.val.val.smx} :
              /\ \A i, j \in 1..Len(sections) :
                    SectionName(i) = SectionName(j) =>
                        Field32(SMX_HEADER_LEN + SMX_SECTION_INFO_LEN * (i - 1))
                          = Field32(SMX_HEADER_LEN
                                      + SMX_SECTION_INFO_LEN * (j - 1))
              /\ \A i \in 1..Len(sections) :
                    Cardinality({e \in 1..Len(map) :
                                    map[e][1] = SectionName(i)}) = 1
              /\ \A i \in 1..Len(sections), e \in 1..Len(map) :
                    map[e][1] = SectionName(i) =>
                        map[e][2] = SectionBytes(LastNamed(i))
              /\ \A e \in 1..Len(map) :
                    \E i \in 1..Len(sections) : map[e][1] = SectionName(i)

\* Two sections named "b" with different data, written from a
\* BorrowedMap::new_unchecked source and read back: one entry, the data of
\* the second.
C21_Witness ==
    /\ pc = "read"
    /\ kind = "BorrowedMap"
    /\ Len(sections) = 2
    /\ SectionName(1) = <<98>> /\ SectionName(2) = <<98>>
    /\ SectionBytes(1) = <<4, 20>> /\ SectionBytes(2) = <<>>
    /\ readResult.val.tag = "Ok"
    /\ readResult.val.val.smx = << <<<<98>>, <<>>>> >>

\* C22: the file written for a container of no section has the section
\* count 0 and an empty string table (string-table offset = payload offset =
\* 24), and Smx::read_from reads it back as an empty container and the byte
\* order it was written in, whatever the byte order and the level.
C22_EmptyContainer ==
    (Written /\ sections = <<>>) =>
        /\ file[16] = 0
        /\ Field32(16) = 24
        /\ Field32(20) = 24
        /\ SubSeq(file, 25, Len(file)) =
              IF level = "NoCompression" THEN <<>>
              ELSE CompressToVecZlib(<<>>, level)
        /\ pc = "read" =>
              /\ readResult.val.tag = "Ok"
              /\ readResult.val.val.smx = <<>>
              /\ readResult.val.val.endianness = order

\* The empty Smx written in Big order at DefaultLevel (the test `empty`) and
\* read back.
C22_Witness ==
    /\ pc = "read"
    /\ kind = "HashMap"
    /\ smx = <<>>
    /\ sections = <<>>
    /\ order = "Big"
    /\ level = "DefaultLevel"
    /\ Len(file) > SMX_HEADER_LEN
    /\ readResult.val = Ok([smx |-> <<>>, endianness |-> "Big"])

-----------------------------------------------------------------------------
(* write_to and its writer. *)

\* C23: on a writer that never fails write_to returns Ok, having made its 8
\* header writes, 3 writes per section and the writes of the string table
\* and of the payload; on a writer that fails call k it returns that
\* writer's error as it is, call k being the last call it made.
C23_WriteFailsOnlyOnWriterError ==
    /\ Written =>
          /\ writer.failAt = None
          /\ writer.result = Some([tag |-> "Ok", val |-> "unit"])
          /\ Len(writer.calls) = 8 + 3 * Len(sections) + 2
    /\ pc = "refused" =>
          \A all \in {WriteCalls(order, level, sections)} :
          \A k \in {writer.failAt.val} :
              /\ writer.result = Some([tag |-> "Err", err |-> WriterError(k)])
              /\ writer.calls = SubSeq(all, 1, k + 1)
              /\ file = ConcatRange(all, 1, k)

\* A writer that fails the second write of record 0 of a file of two
\* sections: ten calls were made and 28 bytes written.
C23_Witness ==
    /\ pc = "refused"
    /\ Len(sections) = 2
    /\ writer.failAt = Some(9)
    /\ writer.result = Some([tag |-> "Err", err |-> WriterError(9)])
    /\ Len(writer.calls) = 10
    /\ Len(file) = SMX_HEADER_LEN + 4

-----------------------------------------------------------------------------
(* Properties of the instruction codec. *)

\* An instruction of the variant v, every field holding 0.
Plain(v) ==
    [variant |-> v, fields |-> [f \in Range(InstructionFields[v]) |-> 0]]

\* The tag cell of a code vector, read on the host.
TagOf(bytes) == I32From(host, SubSeq(bytes, 1, 4))

\* C24: read_from applied to the cells write_to produced for an instruction
\* returns that instruction and leaves the cursor behind the cells written
\* for it, one tag cell and one cell per field of the variant; no other
\* variant is written with the same tag; and read_from of a stream whose
\* tag no variant is written with fails with an InvalidData error.
C24_InstructionRoundTrip ==
    decoded.some =>
        /\ insn.some =>
              /\ decoded.val.result = Ok(insn.val)
              /\ decoded.val.position =
                    4 * (1 + Len(InstructionFields[insn.val.variant]))
              /\ decoded.val.position <= Len(code)
              /\ \A v \in DOMAIN WriteToArms :
                    v # insn.val.variant =>
                        TagOf(InstructionWriteTo(host, Plain(v))) # TagOf(code)
        /\ (~insn.some
               /\ \A v \in DOMAIN WriteToArms :
                     TagOf(InstructionWriteTo(host, Plain(v))) # TagOf(code)) =>
              /\ decoded.val.result.tag = "Err"
              /\ decoded.val.result.err = InvalidOpcode(TagOf(code))

\* An instruction of five fields that do not all hold the same cell was
\* written before another instruction and read back.
C24_Witness ==
    /\ decoded.some
    /\ insn.some
    /\ Len(InstructionFields[insn.val.variant]) = 5
    /\ \E f, g \in DOMAIN insn.val.fields : insn.val.fields[f] # insn.val.fields[g]
    /\ decoded.val.result.tag = "Ok"
    /\ decoded.val.position < Len(code)

\* The cells of an instruction in the order write_to writes them.
CellsOf(i) ==
    <<WriteToArms[i.variant].tag>>
        \o [k \in 1..Len(WriteToArms[i.variant].writes) |->
               i.fields[WriteToArms[i.variant].writes[k]]]

\* The bytes of the only section of an uncompressed file: its last bytes,
\* as many as the record's length field says.
OnlySectionData ==
    SubSeq(file, Len(file) - Field32(SMX_HEADER_LEN + 8) + 1, Len(file))

\* C25: the cells of an instruction stored in a container are in the byte
\* order the container was written in: big-endian in a container written in
\* Big order, little-endian in one written in Little order.
C25_CellsInContainerOrder ==
    (pc = "stored" /\ insn.some) =>
        \A cells \in {CellsOf(insn.val)} :
            SubSeq(OnlySectionData, 1, 4 * Len(cells)) =
                ConcatRange([k \in 1..Len(cells) |-> U32Bytes(order, cells[k])],
                            1, Len(cells))

-----------------------------------------------------------------------------
(* Properties of MaybeUncompressedReader. *)

\* The caller's last call was a read at a position its seeks and reads put
\* it at.
ReadAtKnown ==
    /\ pc = "reader"
    /\ reader.last.op \in {"read", "read_exact"}
    /\ reader.last.from.some

\* C26: a read at position p returns bytes of the logical image from p on
\* (none only at its end), a read_exact of n bytes returns the n bytes from
\* p on and fails only when the image has fewer, also when p is before the
\* payload offset and p + n behind it; and a read that starts before the
\* payload offset of a compressed file ends at or before it.
C26_ReaderIsLogicalImage ==
    ReadAtKnown =>
        \A img \in {Image} :
            LET p == reader.last.from.val
                got == reader.last.got
                n == reader.last.n
            IN  /\ reader.last.op = "read" =>
                      /\ got = Bytes(img, p, Len(got))
                      /\ Len(got) = 0 => p >= Len(img)
                      /\ (file[7] = 1 /\ p < Held32(20)) =>
                            p + Len(got) <= Held32(20)
                /\ reader.last.op = "read_exact" =>
                      IF p + n <= Len(img)
                      THEN reader.last.ok /\ got = Bytes(img, p, n)
                      ELSE ~reader.last.ok

\* What holds of the reader: the same for an uncompressed file, and for a
\* compressed file the reads that start before the payload offset and the
\* read_exact calls that end at or before it.
ReaderRightBeforePayload ==
    ReadAtKnown =>
        \A img \in {Image} :
            LET p == reader.last.from.val
                got == reader.last.got
                n == reader.last.n
                before == IF file[7] = 1 THEN Held32(20) ELSE Len(img) + n
            IN  /\ (reader.last.op = "read" /\ p < before) =>
                      /\ got = Bytes(img, p, Len(got))
                      /\ Len(got) = 0 => p >= Len(img)
                      /\ file[7] = 1 => p + Len(got) <= Held32(20)
                /\ (reader.last.op = "read_exact" /\ p + n <= before) =>
                      IF p + n <= Len(img)
                      THEN reader.last.ok /\ got = Bytes(img, p, n)
                      ELSE ~reader.last.ok

\* Values for the four disk-size bytes of a file.
DiskSizeBytes(f) ==
    {<<0, 0, 0, 0>>, <<1, 0, 0, 0>>, <<255, 255, 255, 255>>,
     U32Bytes("Little", Len(f)), U32Bytes("Big", Len(f) + 1)}

\* C27: the read of a file with compression flag 0 returns the same value
\* and makes the same calls of the sink as the read of the file with any
\* other four disk-size bytes.
C27_DiskSizeUnusedWhenUncompressed ==
    (Done /\ Len(file) >= SMX_HEADER_LEN /\ file[7] = 0) =>
        \A bs \in DiskSizeBytes(file) :
            \A r \in {ReadFrom(SetBytes(file, 7, bs), failing, checks)} :
                /\ r.result = Res
                /\ r.calls = sinkCalls

\* The records whose 12-byte slot the file holds in full.
HeldRecords ==
    {k \in 0..(file[16] - 1) :
        SMX_HEADER_LEN + SMX_SECTION_INFO_LEN * (k + 1) <= Len(file)}

\* Neither the string table nor the data of a record starts among the
\* bytes of the file up to the disk-size field.
DiskSizeNotAliased ==
    /\ Held32(16) >= 11
    /\ \A k \in HeldRecords : RecHeld(file, k, 1) >= 11

\* C27 (amended): the read of a file with compression flag 0 whose string
\* table and section data start behind the disk-size field returns the same
\* value and makes the same calls of the sink as the read of the file with
\* any other four disk-size bytes.
C27_DiskSizeUnusedUnlessAliased ==
    (Done /\ Len(file) >= SMX_HEADER_LEN /\ file[7] = 0
          /\ DiskSizeNotAliased) =>
        \A bs \in DiskSizeBytes(file) :
            \A r \in {ReadFrom(SetBytes(file, 7, bs), failing, checks)} :
                /\ r.result = Res
                /\ r.calls = sinkCalls

\* An uncompressed file whose disk-size field is not its length was read
\* with success into a sink that received a section.
C27_Witness ==
    /\ Done
    /\ Len(file) >= SMX_HEADER_LEN
    /\ file[7] = 0
    /\ DiskSizeNotAliased
    /\ Held32(7) # Len(file)
    /\ Res.tag = "Ok"
    /\ Len(sinkCalls) >= 1

-----------------------------------------------------------------------------
(* The section count. *)

\* The number of 12-byte records the file holds between the header and the
\* string table.
RecordsEmitted == (Field32(16) - SMX_HEADER_LEN) \div SMX_SECTION_INFO_LEN

\* C28: the section-count byte of a written file is the number of
\* section-info records in it and the number of pairs the source yielded.
C28_SectionCountIsNumberOfSections ==
    Written =>
        /\ RecordsEmitted = Len(sections)
        /\ file[16] = RecordsEmitted
        /\ file[16] = Len(sections)

\* What holds of the section-count byte: it is the number of sections
\* modulo 2^8, whatever the number.
SectionCountIsTruncated ==
    Written =>
        /\ RecordsEmitted = Len(sections)
        /\ file[16] = Len(sections) % U8Range

-----------------------------------------------------------------------------
(* The facade Smx::read_from on any file. *)

\* The names of the records 0 .. section_count - 1 of the file, resolved in
\* its string table.
RecordNames ==
    {NameAt(RecHeld(img, k, 0)) : img \in {Image}, k \in 0..(file[16] - 1)}

\* C29: when Smx::read_from returns Ok, the container has an entry under
\* the name of every record of the file and no other entry, and comes with
\* the byte order of the file; otherwise what it returns is an error that
\* carries no container (an abort returns nothing).
C29_SmxReadAllOrNothing ==
    pc = "read" =>
        \A r \in {readResult.val} :
            /\ r.tag = "Ok" =>
                  /\ DOMAIN r.val = {"smx", "endianness"}
                  /\ r.val.endianness = MagicOrder
                  /\ {r.val.smx[i][1] : i \in 1..Len(r.val.smx)} = RecordNames
            /\ r.tag # "Ok" =>
                  /\ r.tag \in {"Err", "Panic"}
                  /\ "val" \notin DOMAIN r

\* Smx::read_from returned the error of record 1 of an altered file, after
\* record 0 was put into the container it was filling.
C29_Witness ==
    /\ pc = "read"
    /\ file # Original
    /\ readResult.val.tag = "Err"
    /\ readResult.val.err.kind = "SectionNameOffset"
    /\ readResult.val.err.section = 1

-----------------------------------------------------------------------------
(* Truncated section data. *)

\* The range of bytes record k asks for holds a byte at or behind the end of
\* the logical image (a range of no byte holds none).
EndsPastImage(img, k) ==
    /\ RecHeld(img, k, 2) > 0
    /\ RecHeld(img, k, 1) + RecHeld(img, k, 2) > Len(img)

\* The read stopped at record k, whose slot the image holds and whose name
\* offset is inside the string table.
StoppedAtData(img, k) ==
    /\ stopped.val = AtRecord(k)
    /\ SMX_HEADER_LEN + SMX_SECTION_INFO_LEN * (k + 1) <= Len(img)
    /\ RecHeld(img, k, 0) < TableSize

\* C30: the read of a record whose data range ends behind the logical image
\* fails with an I/O error without a call of the sink for it, and every
\* call the sink received carries as many bytes as its record says, the
\* bytes of the logical image at the record's data offset.
C30_NoTruncatedSection ==
    (Done /\ PastHeader) =>
        \A img \in {Image} :
            /\ \A k \in 0..(Len(sinkCalls) - 1) :
                  /\ ~EndsPastImage(img, k)
                  /\ CallCarriesData(img, k)
            /\ \A k \in 0..(file[16] - 1) :
                  (StoppedAtData(img, k) /\ EndsPastImage(img, k)) =>
                      /\ IsErr("Io")
                      /\ Len(sinkCalls) = k

\* What holds: no call for a record whose range ends behind the image, an
\* I/O error instead, and every call carries as many bytes as its record
\* says; the bytes are those of the image when the file is not compressed.
NoTruncatedSectionButData ==
    (Done /\ PastHeader) =>
        \A img \in {Image} :
            /\ \A k \in 0..(Len(sinkCalls) - 1) :
                  /\ ~EndsPastImage(img, k)
                  /\ Len(sinkCalls[k + 1].data) = RecHeld(img, k, 2)
                  /\ file[7] = 0 => CallCarriesData(img, k)
            /\ \A k \in 0..(file[16] - 1) :
                  (StoppedAtData(img, k) /\ EndsPastImage(img, k)) =>
                      /\ IsErr("Io")
                      /\ Len(sinkCalls) = k

=============================================================================
